---- MODULE Spec2Model ----
(***************************************************************************)
(* Model of baxfer's storage package: the directory walk of Upload with    *)
(* its eligibility decision (fileUploadEligible), and the Prune sweep,     *)
(* both driving a remote store through the Uploader interface.             *)
(*                                                                         *)
(* Further specifications over the same variables, each leaving the        *)
(* others' variables idle: SpecZip (streamingZipCompress and its pipe),    *)
(* SpecAdapter (FileExists and Download of the adapters), SpecCli (the     *)
(* command's hooks and the SFTP session), SpecKey (constructKey on both    *)
(* operating systems), SpecTee (a transfer with and without the progress   *)
(* bar), SpecList (List over a paged listing), SpecCancel (a call in       *)
(* flight when the context is cancelled), SpecPut (the length each         *)
(* adapter's Upload declares), SpecRetry (a failed transfer and the next   *)
(* run), SpecFetch (Download's output file), SpecParts (a download in      *)
(* concurrent parts) and SpecSweep (List by prefix on the object stores    *)
(* and on SFTP).  SpecZipReading and SpecZipAbandoning are SpecZip with    *)
(* the scheduling of a reader that reads on, and of one that stops.        *)
(*                                                                         *)
(* The model follows the current version of the package (the one with      *)
(* isCompressedFile, streamingZipCompress and the context check in the     *)
(* walk callback).                                                         *)
(*                                                                         *)
(* Times are integers (a bigger number is a later instant), sizes are      *)
(* byte counts, errors are strings ("nil" is the nil error).  A local      *)
(* file's modification time is whatever the file system holds: it may lie  *)
(* before, at or after the store's clock.                                  *)
(***************************************************************************)
EXTENDS Integers, Sequences, FiniteSets, TLC

\* ---- bounds of the model ----
MaxFiles == 2
MaxTime == 2
MaxSize == 2
MaxKeys == 2
MaxBytes == 2
MaxByte == 1
MaxPrefixLen == 5
MaxCalls == 2
MaxInFlight == 2

VARIABLES
    entries,      \* Upload: the directory in walk order (root first), unchanged between runs
    compress,     \* Upload: the --compress flag
    backupExt,    \* Upload: the --backupext flag
    remote,       \* the remote store: key -> FileInfo of the object stored under it
    now,          \* the clock
    cancelled,    \* whether c.Context is done
    status,       \* "idle", "walking", "sweeping" or "done"
    prevOk,       \* whether there was a previous invocation and it returned nil
    idx,          \* position of the walk (or of the sweep) in its sequence
    result,       \* the error the current invocation returned, "nil" for success
    outcome,      \* Upload: per entry "pending", "ignored", "skipped", "uploaded", "failed", "cancelled"
    verdict,      \* Upload: per entry what fileUploadEligible returned (eligible, err)
    calls,        \* the adapter calls of the current invocation, in order
    logs,         \* the log entries of the current invocation, in order
    files,        \* Prune: the keys List returned
    age,          \* Prune: the --age flag
    cutoff,       \* Prune: now - age, computed before the listing
    invokedAt,    \* the clock when the current invocation started
    srcFile,      \* streamingZipCompress: the bytes of the local file
    srcPos,       \* streamingZipCompress: how many of them io.Copy has read
    worker,       \* streamingZipCompress: where the goroutine stands
    zw,           \* streamingZipCompress: what zip.Writer holds buffered, not yet written to pw
    pipe,         \* io.Pipe: what a pw.Write in progress has not yet handed to a pr.Read
    pwClosed,     \* io.Pipe: "open", "eof" (pw.Close) or "err" (pw.CloseWithError)
    received,     \* what the adapter has read from pr so far
    reading,      \* the adapter's read loop: "reading", "eof", "err" or "abandoned"
    provider,     \* adapters: the --provider flag
    objects,      \* adapters: per key "never" (created), "present" or "deleted"
    lastCall,     \* adapters: the last adapter operation, the answers it got and its result
    command,      \* command line: the command of the run
    flags,        \* command line: whether --sftp-host, --sftp-user and --sftp-path are given
    stage,        \* command line: "start", "action", "command", "after" or "exited"
    logger,       \* command line: the logger, "none", "open" or "closed"
    session,      \* command line: the SFTP session, "none", "open" or "closed"
    closes,       \* command line: how many times SFTPUploader.Close was called
    exitCode,     \* command line: the exit code of the process
    targetOS,         \* constructKey: the operating system of the build
    argRootDir,      \* constructKey: rootDir, as path elements
    argKeyPrefix,    \* constructKey: keyPrefix, as characters
    argPath,      \* constructKey: path, as path elements
    built,        \* constructKey: the keys its calls returned, in order
    direction,    \* progress bar: "upload" or "download"
    payload,      \* progress bar: the bytes to transfer
    quiet,        \* progress bar: the transfer of the run with --non-interactive
    loud,         \* progress bar: the transfer of the run without it
    listForm,     \* List: the form of the adapter's List
    bucketKeys,   \* List: the keys the bucket holds
    listPrefix,   \* List: the prefix asked for
    firstPage,    \* List: the paginator has not fetched a page yet
    nextToken,    \* List: the continuation token of the last page, or NoToken
    listKeys,     \* List: the keys collected so far
    fetched,      \* List: the outcome of each page request, in order
    listRet,      \* List: what List returned, or NotReturned
    adapter,      \* call in flight: the provider of the adapter
    inflight,     \* call in flight: the operation and the round trips it has left
    ctxGone,      \* call in flight: the context is cancelled
    cutShort,     \* call in flight: the context was cancelled while the call ran
    callRet,      \* call in flight: the error the call returned, or "pending"
    putAdapter,   \* adapter Upload: the provider of the adapter
    putCompress,  \* adapter Upload: the reader is an archive stream
    putStream,    \* adapter Upload: the bytes the reader yields
    requests,     \* adapter Upload: the requests the adapter made
    putRet,       \* adapter Upload: "idle", "pending", or the error returned
    retryAdapter, \* retry: the provider of the adapter
    retryFile,    \* retry: the local file
    retryCompress, \* retry: the compress flag
    retryStore,   \* retry: the remote objects
    retryClock,   \* retry: the store's clock
    retryStage,   \* retry: how each run so far left the file
    retryVerdict, \* retry: what the last run's eligibility check said
    retryRuns,    \* retry: the number of runs so far
    fetchBefore,  \* Download: the output file before the run
    fetchLocal,   \* Download: the output file
    fetchObject,  \* Download: the remote object under the key
    fetchRet,     \* Download: "pending", or what the run returned
    partObject,   \* multipart Download: the remote object, part by part
    handedOut,    \* multipart Download: the number of parts handed to workers
    flying,       \* multipart Download: the parts in flight
    dest,         \* multipart Download: what the destination writer was given
    partsDone,    \* multipart Download: Download has returned
    sweepAdapter, \* List by prefix: the provider of the adapter
    uploaded,     \* List by prefix: the keys uploaded so far
    sweepPrefix,  \* List by prefix: the prefix of the last List call
    sweepRet,     \* List by prefix: what the last List call returned
    listedOf      \* List by prefix: the keys uploaded before the last List call

zipVars == <<srcFile, srcPos, worker, zw, pipe, pwClosed, received, reading>>

adapterVars == <<provider, objects, lastCall>>

cliVars == <<command, flags, stage, logger, session, closes, exitCode>>

keyVars == <<targetOS, argRootDir, argKeyPrefix, argPath, built>>

teeVars == <<direction, payload, quiet, loud>>

listVars == <<listForm, bucketKeys, listPrefix, firstPage, nextToken, listKeys, fetched,
              listRet>>

cancelVars == <<adapter, inflight, ctxGone, cutShort, callRet>>

putVars == <<putAdapter, putCompress, putStream, requests, putRet>>

retryVars == <<retryAdapter, retryFile, retryCompress, retryStore, retryClock, retryStage,
               retryVerdict, retryRuns>>

fetchVars == <<fetchBefore, fetchLocal, fetchObject, fetchRet>>

partsVars == <<partObject, handedOut, flying, dest, partsDone>>

sweepVars == <<sweepAdapter, uploaded, sweepPrefix, sweepRet, listedOf>>

moreVars == <<cancelVars, putVars, retryVars, fetchVars, partsVars, sweepVars>>

auxVars == <<zipVars, adapterVars, cliVars, keyVars, teeVars, listVars, moreVars>>

vars == <<entries, compress, backupExt, remote, now, cancelled, status, prevOk,
          idx, result, outcome, verdict, calls, logs, files, age, cutoff, invokedAt,
          auxVars>>

\* ---- the parts a specification leaves alone ----
ZipIdle ==
    /\ srcFile = <<>>
    /\ srcPos = 0
    /\ worker = "idle"
    /\ zw = <<>>
    /\ pipe = <<>>
    /\ pwClosed = "open"
    /\ received = <<>>
    /\ reading = "idle"

AdapterIdle ==
    /\ provider = "s3"
    /\ objects = <<>>
    /\ lastCall = <<>>

CliIdle ==
    /\ command = "upload"
    /\ flags = FALSE
    /\ stage = "idle"
    /\ logger = "none"
    /\ session = "none"
    /\ closes = 0
    /\ exitCode = 0

KeyIdle ==
    /\ targetOS = "unix"
    /\ argRootDir = <<>>
    /\ argKeyPrefix = <<>>
    /\ argPath = <<>>
    /\ built = <<>>

TeeIdle ==
    /\ direction = "upload"
    /\ payload = <<>>
    /\ quiet = <<>>
    /\ loud = <<>>

ListIdle ==
    /\ listForm = "paginator"
    /\ bucketKeys = {}
    /\ listPrefix = ""
    /\ firstPage = TRUE
    /\ nextToken = 0
    /\ listKeys = <<>>
    /\ fetched = <<>>
    /\ listRet = <<>>

CancelIdle ==
    /\ adapter = "s3"
    /\ inflight = [op |-> "none", left |-> 0]
    /\ ctxGone = FALSE
    /\ cutShort = FALSE
    /\ callRet = "pending"

PutIdle ==
    /\ putAdapter = "s3"
    /\ putCompress = FALSE
    /\ putStream = <<>>
    /\ requests = <<>>
    /\ putRet = "idle"

RetryIdle ==
    /\ retryAdapter = "s3"
    /\ retryFile = <<>>
    /\ retryCompress = FALSE
    /\ retryStore = <<>>
    /\ retryClock = 0
    /\ retryStage = <<>>
    /\ retryVerdict = <<>>
    /\ retryRuns = 0

FetchIdle ==
    /\ fetchBefore = <<>>
    /\ fetchLocal = <<>>
    /\ fetchObject = <<>>
    /\ fetchRet = "pending"

PartsIdle ==
    /\ partObject = <<>>
    /\ handedOut = 0
    /\ flying = {}
    /\ dest = <<>>
    /\ partsDone = FALSE

SweepIdle ==
    /\ sweepAdapter = "s3"
    /\ uploaded = {}
    /\ sweepPrefix = <<>>
    /\ sweepRet = <<>>
    /\ listedOf = {}

MoreIdle ==
    CancelIdle /\ PutIdle /\ RetryIdle /\ FetchIdle /\ PartsIdle /\ SweepIdle

AuxIdle ==
    ZipIdle /\ AdapterIdle /\ CliIdle /\ KeyIdle /\ TeeIdle /\ ListIdle /\ MoreIdle

uploadCfg == <<entries, compress, backupExt>>
pruneVars == <<files, age, cutoff>>

Times == 0..MaxTime
Sizes == 1..MaxSize
StartTime == 1

\* ---- extensions ----
Exts == {".bak", ".gz"}

\* strings.ToLower on the extensions of the model
LowerOf == [x \in {".BAK", ".GZ", ".ZIP"} |->
               CASE x = ".BAK" -> ".bak" [] x = ".GZ" -> ".gz" [] x = ".ZIP" -> ".zip"]

ToLower(ext) == IF ext \in DOMAIN LowerOf THEN LowerOf[ext] ELSE ext

CompressedExts ==
    {".gz", ".gzip", ".zip", ".bz2", ".xz", ".lz", ".lz4", ".zst", ".zstd",
     ".7z", ".rar", ".cab", ".lzma", ".br",
     ".jpg", ".jpeg", ".png", ".gif", ".webp", ".avif",
     ".mp3", ".mp4", ".mkv", ".avi", ".mov", ".flac", ".ogg", ".aac",
     ".woff", ".woff2"}

\* isCompressedFile: the (lower-cased) extension is in the already-compressed list
isCompressedFile(e) == ToLower(e.ext) \in CompressedExts

\* ---- keys ----
\* constructKey for a file directly under the root with an empty key prefix
constructKey(e) == e.name \o e.ext

\* strings.TrimSuffix(originalKey, filepath.Ext(originalKey)) + ".zip"
compressedKey(e) == e.name \o ".zip"

\* faulty variant: compression is applied whatever the file's extension
shouldCompress_IgnoresExtension(c, e) == c

shouldCompress(c, e) == c /\ ~isCompressedFile(e)

uploadKey(c, e) == IF shouldCompress(c, e) THEN compressedKey(e) ELSE constructKey(e)

\* the walk callback's filter: directories and other extensions are passed over
Qualifies(e, ext) == ~e.isDir /\ e.ext = ext

\* ---- the directory ----
Root == [name |-> ".", ext |-> "", isDir |-> TRUE, modTime |-> 0, size |-> 0]

FileName(i) == "f" \o ToString(i)

\* a directory of one file, the file having any extension, time and size
FileAttrs == [ext : Exts, modTime : Times, size : Sizes]

\* a directory of several files: they differ in their extensions only, the remote
\* objects in their times
PlainAttrs == [ext : Exts, modTime : {StartTime}, size : {1}]

MkFile(i, a) ==
    [name |-> FileName(i), ext |-> a.ext, isDir |-> FALSE, modTime |-> a.modTime, size |-> a.size]

DirOf(n, Attrs) == {<<Root>> \o [i \in 1..n |-> MkFile(i, fs[i])] : fs \in [1..n -> Attrs]}

Dirs == DirOf(1, FileAttrs) \cup UNION {DirOf(n, PlainAttrs) : n \in 0..MaxFiles}

\* the remote objects a directory can meet: any time and size for a directory of one
\* file, an older or a newer object of the file's size for the others
RemoteInfos(es) ==
    IF Len(es) = 2 THEN [lastModified : Times, size : Sizes]
    ELSE [lastModified : {0, MaxTime}, size : {1}]

\* the keys one Upload configuration can touch
UploadKeys(es, c, ext) ==
    {uploadKey(c, es[i]) : i \in {j \in 1..Len(es) : Qualifies(es[j], ext)}}

\* ---- the adapter (Uploader interface) ----
NoInfo == [lastModified |-> -1, size |-> -1]

\* one adapter call with what it returned: err ("nil" for none), and for FileExists the
\* boolean, for GetFileInfo the FileInfo, for Upload the size handed over
Call(op, key, err, exists, info, size) ==
    [op |-> op, key |-> key, err |-> err, exists |-> exists, info |-> info, size |-> size,
     body |-> "none"]

\* an Upload call: the key, the size and the reader handed to the adapter; body "file"
\* is the opened local file, body "zip" the read end of streamingZipCompress's pipe
UploadCall(key, err, size, body) ==
    [Call("Upload", key, err, FALSE, NoInfo, size) EXCEPT !.body = body]

\* FileExists without a failure: whether an object is stored under the key
FileExists(rem, key) == key \in DOMAIN rem

\* GetFileInfo without a failure: the stored object's attributes
GetFileInfo(rem, key) == rem[key]

\* the size of the single-entry archive made of a file of the given size
ZipSize(size) == size + 1

\* Upload without a failure: the object is stored, the store stamps it with its clock
Stored(rem, key, t, size) ==
    [k \in DOMAIN rem \cup {key} |->
        IF k = key THEN [lastModified |-> t, size |-> size] ELSE rem[k]]

\* Delete without a failure
Removed(rem, key) == [k \in DOMAIN rem \ {key} |-> rem[k]]

ExistsCall(rem, key, failed) ==
    IF failed THEN Call("FileExists", key, "FileExistsErr", FALSE, NoInfo, 0)
    ELSE Call("FileExists", key, "nil", FileExists(rem, key), NoInfo, 0)

InfoCall(rem, key, failed) ==
    IF failed THEN Call("GetFileInfo", key, "GetFileInfoErr", FALSE, NoInfo, 0)
    ELSE Call("GetFileInfo", key, "nil", TRUE, GetFileInfo(rem, key), 0)

\* ---- fileUploadEligible ----
\* faulty variants of the comparisons: After with its operands exchanged, After taken
\* as "not before", the size comparison made under compression too, and the size
\* comparison made under compression only
LocalNewer_Reversed(info, remoteInfo) == remoteInfo.lastModified > info.modTime

LocalNewer_NotBefore(info, remoteInfo) == info.modTime >= remoteInfo.lastModified

SizesDiffer_AlsoCompressed(compressed, info, remoteInfo) == info.size # remoteInfo.size

SizesDiffer_OnlyCompressed(compressed, info, remoteInfo) ==
    compressed /\ info.size # remoteInfo.size

\* info.ModTime().After(remoteInfo.LastModified)
LocalNewer(info, remoteInfo) == info.modTime > remoteInfo.lastModified

\* !compressed && info.Size() != remoteInfo.Size
SizesDiffer(compressed, info, remoteInfo) == ~compressed /\ info.size # remoteInfo.size

Decision(eligible, err, cs, ls) == [eligible |-> eligible, err |-> err, calls |-> cs, logs |-> ls]

Log(level, msg, what) == <<level, msg, what>>

\* faulty variant: an absent object makes the file Skip instead of Eligible
fileUploadEligible_AbsentSkips(rem, key, info, compressed, existsErr, statErr) ==
    IF existsErr
    THEN Decision(FALSE, "FileExistsErr", <<ExistsCall(rem, key, TRUE)>>,
                  <<Log("error", "Error checking if file exists", key)>>)
    ELSE IF ~FileExists(rem, key)
    THEN Decision(FALSE, "nil", <<ExistsCall(rem, key, FALSE)>>, <<>>)
    ELSE IF statErr
    THEN Decision(FALSE, "GetFileInfoErr",
                  <<ExistsCall(rem, key, FALSE), InfoCall(rem, key, TRUE)>>,
                  <<Log("error", "Error getting remote file info", key)>>)
    ELSE IF info.modTime > GetFileInfo(rem, key).lastModified
    THEN Decision(TRUE, "nil", <<ExistsCall(rem, key, FALSE), InfoCall(rem, key, FALSE)>>,
                  <<Log("info", "Local file is newer", key)>>)
    ELSE IF ~compressed /\ info.size # GetFileInfo(rem, key).size
    THEN Decision(TRUE, "nil", <<ExistsCall(rem, key, FALSE), InfoCall(rem, key, FALSE)>>,
                  <<Log("info", "File sizes differ", key)>>)
    ELSE Decision(FALSE, "nil", <<ExistsCall(rem, key, FALSE), InfoCall(rem, key, FALSE)>>, <<>>)

\* existsErr, statErr: whether the adapter's FileExists / GetFileInfo fails
fileUploadEligible(rem, key, info, compressed, existsErr, statErr) ==
    IF existsErr
    THEN Decision(FALSE, "FileExistsErr", <<ExistsCall(rem, key, TRUE)>>,
                  <<Log("error", "Error checking if file exists", key)>>)
    ELSE IF ~FileExists(rem, key)
    THEN Decision(TRUE, "nil", <<ExistsCall(rem, key, FALSE)>>, <<>>)
    ELSE IF statErr
    THEN Decision(FALSE, "GetFileInfoErr",
                  <<ExistsCall(rem, key, FALSE), InfoCall(rem, key, TRUE)>>,
                  <<Log("error", "Error getting remote file info", key)>>)
    ELSE IF LocalNewer(info, GetFileInfo(rem, key))
    THEN Decision(TRUE, "nil", <<ExistsCall(rem, key, FALSE), InfoCall(rem, key, FALSE)>>,
                  <<Log("info", "Local file is newer", key)>>)
    ELSE IF SizesDiffer(compressed, info, GetFileInfo(rem, key))
    THEN Decision(TRUE, "nil", <<ExistsCall(rem, key, FALSE), InfoCall(rem, key, FALSE)>>,
                  <<Log("info", "File sizes differ", key)>>)
    ELSE Decision(FALSE, "nil", <<ExistsCall(rem, key, FALSE), InfoCall(rem, key, FALSE)>>, <<>>)

\* what fileUploadEligible returned for an entry; NotAsked before it is called
Returned(d) == [eligible |-> d.eligible, err |-> d.err]
NotAsked == [eligible |-> FALSE, err |-> "none"]
Eligible == [eligible |-> TRUE, err |-> "nil"]
Skip == [eligible |-> FALSE, err |-> "nil"]

\* ---- Upload: the walk ----
Path(e) == e.name \o e.ext

\* what one call of the walk callback does: the error it returns, the adapter calls and
\* log entries it adds, the entry's verdict and outcome, and the remote store after it
Visit(res, cs, ls, vd, oc, rem) ==
    [res |-> res, calls |-> cs, logs |-> ls, verdict |-> vd, outcome |-> oc, remote |-> rem]

\* what can go wrong during one call of the callback (the first failure ends it)
Faults == {"none", "walk", "key", "exists", "stat", "open", "upload"}

\* faulty variant: a failed adapter Upload is logged and the walk goes on
Transfer_UploadErrorIgnored(rem, t, c, e, d, fault) ==
    LET sc == shouldCompress(c, e)
        key == uploadKey(c, e)
        uploadSize == IF sc THEN -1 ELSE e.size
        reader == IF sc THEN "zip" ELSE "file"
        note == IF ~sc /\ c /\ isCompressedFile(e)
                THEN <<Log("info", "Skipping compression for already-compressed file", Path(e))>>
                ELSE <<>>
    IN  IF fault = "open"
        THEN Visit("openErr", d.calls,
                   d.logs \o <<Log("error", "Failed to open file", Path(e))>>,
                   Returned(d), "failed", rem)
        ELSE IF fault = "upload"
        THEN Visit("nil",
                   d.calls \o <<UploadCall(key, "UploadErr", uploadSize, reader)>>,
                   d.logs \o note \o <<Log("error", "Failed to upload file", Path(e))>>,
                   Returned(d), "failed", rem)
        ELSE Visit("nil",
                   d.calls \o <<UploadCall(key, "nil", uploadSize, reader)>>,
                   d.logs \o note \o <<Log("info", "File uploaded successfully", Path(e))>>,
                   Returned(d), "uploaded",
                   Stored(rem, key, t, IF sc THEN ZipSize(e.size) ELSE e.size))

\* the part of the callback after the eligibility check said "eligible"
Transfer(rem, t, c, e, d, fault) ==
    LET sc == shouldCompress(c, e)
        key == uploadKey(c, e)
        uploadSize == IF sc THEN -1 ELSE e.size
        reader == IF sc THEN "zip" ELSE "file"
        note == IF ~sc /\ c /\ isCompressedFile(e)
                THEN <<Log("info", "Skipping compression for already-compressed file", Path(e))>>
                ELSE <<>>
    IN  IF fault = "open"
        THEN Visit("openErr", d.calls,
                   d.logs \o <<Log("error", "Failed to open file", Path(e))>>,
                   Returned(d), "failed", rem)
        ELSE IF fault = "upload"
        THEN Visit("UploadErr",
                   d.calls \o <<UploadCall(key, "UploadErr", uploadSize, reader)>>,
                   d.logs \o note \o <<Log("error", "Failed to upload file", Path(e))>>,
                   Returned(d), "failed", rem)
        ELSE Visit("nil",
                   d.calls \o <<UploadCall(key, "nil", uploadSize, reader)>>,
                   d.logs \o note \o <<Log("info", "File uploaded successfully", Path(e))>>,
                   Returned(d), "uploaded",
                   Stored(rem, key, t, IF sc THEN ZipSize(e.size) ELSE e.size))

\* faulty variant: the callback without the check of the context
walkFn_NoContextCheck(rem, t, ctxDone, c, ext, e, fault) ==
    LET d == fileUploadEligible(rem, uploadKey(c, e), e, shouldCompress(c, e),
                                fault = "exists", fault = "stat")
    IN  IF fault = "walk"
        THEN Visit("walkErr", <<>>, <<>>, NotAsked, "failed", rem)
        ELSE IF ~Qualifies(e, ext)
        THEN Visit("nil", <<>>, <<>>, NotAsked, "ignored", rem)
        ELSE IF fault = "key"
        THEN Visit("keyErr", <<>>, <<Log("error", "Error constructing key", Path(e))>>,
                   NotAsked, "failed", rem)
        ELSE IF d.err # "nil"
        THEN Visit(d.err, d.calls,
                   d.logs \o <<Log("error", "Error checking file eligibility", Path(e))>>,
                   Returned(d), "failed", rem)
        ELSE IF ~d.eligible
        THEN Visit("nil", d.calls,
                   d.logs \o <<Log("info", "Skipping file (already uploaded or not modified)", Path(e))>>,
                   Returned(d), "skipped", rem)
        ELSE Transfer(rem, t, c, e, d, fault)

\* faulty variant: an eligibility error makes the callback skip the file and go on
walkFn_ErrorSkips(rem, t, ctxDone, c, ext, e, fault) ==
    LET d == fileUploadEligible(rem, uploadKey(c, e), e, shouldCompress(c, e),
                                fault = "exists", fault = "stat")
    IN  IF ctxDone
        THEN Visit("context.Canceled", <<>>, <<>>, NotAsked, "cancelled", rem)
        ELSE IF fault = "walk"
        THEN Visit("walkErr", <<>>, <<>>, NotAsked, "failed", rem)
        ELSE IF ~Qualifies(e, ext)
        THEN Visit("nil", <<>>, <<>>, NotAsked, "ignored", rem)
        ELSE IF fault = "key"
        THEN Visit("keyErr", <<>>, <<Log("error", "Error constructing key", Path(e))>>,
                   NotAsked, "failed", rem)
        ELSE IF d.err # "nil" \/ ~d.eligible
        THEN Visit("nil", d.calls,
                   d.logs \o <<Log("info", "Skipping file (already uploaded or not modified)", Path(e))>>,
                   Returned(d), "skipped", rem)
        ELSE Transfer(rem, t, c, e, d, fault)

\* the callback filepath.Walk runs on one entry; fault "walk": Walk hands it an error,
\* fault "key": constructKey returns an error
walkFn(rem, t, ctxDone, c, ext, e, fault) ==
    LET d == fileUploadEligible(rem, uploadKey(c, e), e, shouldCompress(c, e),
                                fault = "exists", fault = "stat")
    IN  IF ctxDone
        THEN Visit("context.Canceled", <<>>, <<>>, NotAsked, "cancelled", rem)
        ELSE IF fault = "walk"
        THEN Visit("walkErr", <<>>, <<>>, NotAsked, "failed", rem)
        ELSE IF ~Qualifies(e, ext)
        THEN Visit("nil", <<>>, <<>>, NotAsked, "ignored", rem)
        ELSE IF fault = "key"
        THEN Visit("keyErr", <<>>, <<Log("error", "Error constructing key", Path(e))>>,
                   NotAsked, "failed", rem)
        ELSE IF d.err # "nil"
        THEN Visit(d.err, d.calls,
                   d.logs \o <<Log("error", "Error checking file eligibility", Path(e))>>,
                   Returned(d), "failed", rem)
        ELSE IF ~d.eligible
        THEN Visit("nil", d.calls,
                   d.logs \o <<Log("info", "Skipping file (already uploaded or not modified)", Path(e))>>,
                   Returned(d), "skipped", rem)
        ELSE Transfer(rem, t, c, e, d, fault)

\* ---- actions of an Upload invocation ----
\* Upload up to the call of filepath.Walk; rootGiven: a root directory argument was given,
\* preCancelled: the context is already done when Upload is called
StartUpload ==
    /\ status \in {"idle", "done"}
    /\ \E rootGiven \in BOOLEAN, preCancelled \in BOOLEAN :
        /\ cancelled' = preCancelled
        /\ status' = IF rootGiven THEN "walking" ELSE "done"
        /\ result' = IF rootGiven THEN "running" ELSE "exit: No root directory specified"
    /\ prevOk' = (result = "nil")
    /\ idx' = 1
    /\ outcome' = [i \in 1..Len(entries) |-> "pending"]
    /\ verdict' = [i \in 1..Len(entries) |-> NotAsked]
    /\ calls' = <<>>
    /\ logs' = <<>>
    /\ invokedAt' = now
    /\ UNCHANGED <<auxVars, uploadCfg, remote, now, pruneVars>>

\* filepath.Walk calls the callback on the next entry and goes on or returns
WalkStep ==
    /\ status = "walking"
    /\ \E fault \in Faults :
        LET v == walkFn(remote, now, cancelled, compress, backupExt, entries[idx], fault)
        IN  /\ calls' = calls \o v.calls
            /\ logs' = logs \o v.logs
            /\ outcome' = [outcome EXCEPT ![idx] = v.outcome]
            /\ verdict' = [verdict EXCEPT ![idx] = v.verdict]
            /\ remote' = v.remote
            /\ result' = IF v.res # "nil" THEN v.res
                          ELSE IF idx = Len(entries) THEN "nil" ELSE result
            /\ status' = IF v.res # "nil" \/ idx = Len(entries) THEN "done" ELSE "walking"
            /\ idx' = IF v.res # "nil" \/ idx = Len(entries) THEN idx ELSE idx + 1
    /\ UNCHANGED <<auxVars, uploadCfg, now, cancelled, prevOk, pruneVars, invokedAt>>

\* the context is cancelled from outside while the walk runs
Cancel ==
    /\ status = "walking"
    /\ ~cancelled
    /\ cancelled' = TRUE
    /\ UNCHANGED <<auxVars, uploadCfg, remote, now, status, prevOk, idx, result, outcome,
                   verdict, calls, logs, pruneVars, invokedAt>>

\* time passes
Tick ==
    /\ now < MaxTime
    /\ now' = now + 1
    /\ UNCHANGED <<auxVars, uploadCfg, remote, cancelled, status, prevOk, idx, result,
                   outcome, verdict, calls, logs, pruneVars, invokedAt>>

InitUpload ==
    /\ entries \in Dirs
    /\ compress \in BOOLEAN
    /\ backupExt \in Exts
    /\ \E S \in SUBSET UploadKeys(entries, compress, backupExt) : remote \in [S -> RemoteInfos(entries)]
    /\ now = StartTime
    /\ cancelled = FALSE
    /\ status = "idle"
    /\ prevOk = FALSE
    /\ idx = 1
    /\ result = "none"
    /\ outcome = [i \in 1..Len(entries) |-> "pending"]
    /\ verdict = [i \in 1..Len(entries) |-> NotAsked]
    /\ calls = <<>>
    /\ logs = <<>>
    /\ files = <<>>
    /\ age = 0
    /\ cutoff = 0
    /\ invokedAt = StartTime
    /\ AuxIdle

NextUpload == StartUpload \/ WalkStep \/ Cancel \/ Tick

SpecUpload == InitUpload /\ [][NextUpload]_vars

\* ---- Prune ----
PruneKey(i) == "k" \o ToString(i)

PruneKeys == {PruneKey(i) : i \in 1..MaxKeys}

\* the --age durations tried: none given (0), negative, positive
Ages == (-1)..MaxTime

\* List without a failure: the stored keys under the prefix, in key order; the prefix
\* selects the keys numbered in I
Listing(rem, I) ==
    LET has == {i \in I : PruneKey(i) \in DOMAIN rem}
        F[n \in 0..MaxKeys] ==
            IF n = 0 THEN <<>>
            ELSE IF n \in has THEN Append(F[n - 1], PruneKey(n)) ELSE F[n - 1]
    IN  F[MaxKeys]

\* faulty variant: Before taken as "not after"
Stale_NotAfter(info, co) == info.lastModified <= co

\* info.LastModified.Before(cutoff)
Stale(info, co) == info.lastModified < co

\* faulty variant: a failed listing is taken as an empty one
pruneStart_ListErrorIgnored(rem, t, a, listing, listErr) ==
    IF a = 0
    THEN [res |-> "exit: No age specified for pruning", done |-> TRUE, cutoff |-> 0,
          files |-> <<>>, calls |-> <<>>, logs |-> <<>>]
    ELSE IF listErr
    THEN [res |-> "nil", done |-> TRUE, cutoff |-> t - a, files |-> <<>>,
          calls |-> <<Call("List", "", "ListErr", FALSE, NoInfo, 0)>>,
          logs |-> <<Log("error", "Failed to list files", "")>>]
    ELSE [res |-> "nil", done |-> listing = <<>>, cutoff |-> t - a, files |-> listing,
          calls |-> <<Call("List", "", "nil", FALSE, NoInfo, 0)>>, logs |-> <<>>]

\* Prune up to the loop: the age check, the cutoff and the listing
pruneStart(rem, t, a, listing, listErr) ==
    IF a = 0
    THEN [res |-> "exit: No age specified for pruning", done |-> TRUE, cutoff |-> 0,
          files |-> <<>>, calls |-> <<>>, logs |-> <<>>]
    ELSE IF listErr
    THEN [res |-> "ListErr", done |-> TRUE, cutoff |-> t - a, files |-> <<>>,
          calls |-> <<Call("List", "", "ListErr", FALSE, NoInfo, 0)>>,
          logs |-> <<Log("error", "Failed to list files", "")>>]
    ELSE [res |-> "nil", done |-> listing = <<>>, cutoff |-> t - a, files |-> listing,
          calls |-> <<Call("List", "", "nil", FALSE, NoInfo, 0)>>, logs |-> <<>>]

PruneFaults == {"none", "stat", "delete"}

\* faulty variant: a GetFileInfo failure makes Prune return the error
pruneKey_StatErrorReturns(rem, co, key, fault) ==
    IF fault = "stat" \/ ~FileExists(rem, key)
    THEN [res |-> "GetFileInfoErr", calls |-> <<InfoCall(rem, key, TRUE)>>,
          logs |-> <<Log("error", "Failed to get file info", key)>>, remote |-> rem]
    ELSE IF ~(GetFileInfo(rem, key).lastModified < co)
    THEN [res |-> "nil", calls |-> <<InfoCall(rem, key, FALSE)>>, logs |-> <<>>, remote |-> rem]
    ELSE IF fault = "delete"
    THEN [res |-> "nil",
          calls |-> <<InfoCall(rem, key, FALSE), Call("Delete", key, "DeleteErr", FALSE, NoInfo, 0)>>,
          logs |-> <<Log("error", "Failed to delete file", key)>>, remote |-> rem]
    ELSE [res |-> "nil",
          calls |-> <<InfoCall(rem, key, FALSE), Call("Delete", key, "nil", FALSE, NoInfo, 0)>>,
          logs |-> <<Log("info", "Deleted old file", key)>>, remote |-> Removed(rem, key)]

\* one iteration of Prune's loop; res: what Prune returns from within it ("nil": it goes on)
pruneKey(rem, co, key, fault) ==
    IF fault = "stat" \/ ~FileExists(rem, key)
    THEN [res |-> "nil", calls |-> <<InfoCall(rem, key, TRUE)>>,
          logs |-> <<Log("error", "Failed to get file info", key)>>, remote |-> rem]
    ELSE IF ~Stale(GetFileInfo(rem, key), co)
    THEN [res |-> "nil", calls |-> <<InfoCall(rem, key, FALSE)>>, logs |-> <<>>, remote |-> rem]
    ELSE IF fault = "delete"
    THEN [res |-> "nil",
          calls |-> <<InfoCall(rem, key, FALSE), Call("Delete", key, "DeleteErr", FALSE, NoInfo, 0)>>,
          logs |-> <<Log("error", "Failed to delete file", key)>>, remote |-> rem]
    ELSE [res |-> "nil",
          calls |-> <<InfoCall(rem, key, FALSE), Call("Delete", key, "nil", FALSE, NoInfo, 0)>>,
          logs |-> <<Log("info", "Deleted old file", key)>>, remote |-> Removed(rem, key)]

\* one Prune invocation per process
StartPrune ==
    /\ status = "idle"
    /\ \E a \in Ages, I \in SUBSET (1..MaxKeys), listErr \in BOOLEAN :
        LET p == pruneStart(remote, now, a, Listing(remote, I), listErr)
        IN  /\ age' = a
            /\ cutoff' = p.cutoff
            /\ files' = p.files
            /\ calls' = p.calls
            /\ logs' = p.logs
            /\ status' = IF p.done THEN "done" ELSE "sweeping"
            /\ result' = IF p.done THEN p.res ELSE "running"
    /\ prevOk' = (result = "nil")
    /\ idx' = 1
    /\ invokedAt' = now
    /\ UNCHANGED <<auxVars, uploadCfg, remote, now, cancelled, outcome, verdict>>

PruneStep ==
    /\ status = "sweeping"
    /\ \E fault \in PruneFaults :
        LET v == pruneKey(remote, cutoff, files[idx], fault)
            stop == v.res # "nil" \/ idx = Len(files)
        IN  /\ calls' = calls \o v.calls
            /\ logs' = logs \o v.logs
            /\ remote' = v.remote
            /\ result' = IF stop THEN v.res ELSE result
            /\ status' = IF stop THEN "done" ELSE "sweeping"
            /\ idx' = IF stop THEN idx ELSE idx + 1
    /\ UNCHANGED <<auxVars, uploadCfg, now, cancelled, prevOk, outcome, verdict, pruneVars, invokedAt>>

InitPrune ==
    /\ entries = <<Root>>
    /\ compress = FALSE
    /\ backupExt = ".bak"
    /\ \E S \in SUBSET PruneKeys : remote \in [S -> [lastModified : Times, size : {1}]]
    /\ now = StartTime
    /\ cancelled = FALSE
    /\ status = "idle"
    /\ prevOk = FALSE
    /\ idx = 1
    /\ result = "none"
    /\ outcome = <<"pending">>
    /\ verdict = <<NotAsked>>
    /\ calls = <<>>
    /\ logs = <<>>
    /\ files = <<>>
    /\ age = 0
    /\ cutoff = 0
    /\ invokedAt = StartTime
    /\ AuxIdle

NextPrune == StartPrune \/ PruneStep \/ Tick

SpecPrune == InitPrune /\ [][NextPrune]_vars

\* every variable of Upload and Prune at rest, for the specifications of other parts
CoreIdle ==
    /\ entries = <<Root>>
    /\ compress = FALSE
    /\ backupExt = ".bak"
    /\ remote = <<>>
    /\ now = StartTime
    /\ cancelled = FALSE
    /\ status = "idle"
    /\ prevOk = FALSE
    /\ idx = 1
    /\ result = "none"
    /\ outcome = <<"pending">>
    /\ verdict = <<NotAsked>>
    /\ calls = <<>>
    /\ logs = <<>>
    /\ files = <<>>
    /\ age = 0
    /\ cutoff = 0
    /\ invokedAt = StartTime

otherThanZip == <<adapterVars, cliVars, keyVars, teeVars, listVars, moreVars>>

coreVars == <<entries, compress, backupExt, remote, now, cancelled, status, prevOk,
              idx, result, outcome, verdict, calls, logs, files, age, cutoff, invokedAt>>

\* ---- streamingZipCompress: the archiving goroutine, the pipe and the adapter's reads ----
Bytes == 0..MaxByte

\* the local files: every byte sequence of up to MaxBytes bytes
LocalFiles == UNION {[1..n -> Bytes] : n \in 0..MaxBytes}

\* the name given to the archive's entry: filepath.Base of the path
EntryName == "f1.bak"

\* the deflate coding of one byte and its inverse
Deflate(b) == (b + 1) % (MaxByte + 1)

Inflate(x) == (x + MaxByte) % (MaxByte + 1)

RECURSIVE Crc(_)
Crc(bs) == IF bs = <<>> THEN 0 ELSE (bs[1] + Crc(Tail(bs))) % (MaxByte + 1)

\* the pieces of an archive: local file header, one coded byte, data descriptor
\* (checksum and length of the entry), central directory header, end record with the
\* number of entries
Piece(t, name, byte, n) == [t |-> t, name |-> name, byte |-> byte, n |-> n]

LocalHeader(name) == Piece("lfh", name, 0, 0)

Data(b) == Piece("data", "", Deflate(b), 0)

Descriptor(bs) == Piece("dd", "", Crc(bs), Len(bs))

CentralHeader(name) == Piece("cd", name, 0, 0)

EndRecord(n) == Piece("eocd", "", 0, n)

\* what one step of the goroutine does: where it stands next, what it appends to the
\* zip.Writer, how far the file has been read, and how it leaves the pipe's write end
Step(w, out, pos, closed) == [worker |-> w, out |-> out, pos |-> pos, closed |-> closed]

\* faulty variant: the goroutine returns on an error and leaves the write end open
createHeader_ErrorLeavesPipeOpen(name, pos, fail) ==
    IF fail THEN Step("failed", <<>>, pos, "open")
    ELSE Step("copy", <<LocalHeader(name)>>, pos, "open")

\* zw.CreateHeader; on an error pw.CloseWithError
createHeader(name, pos, fail) ==
    IF fail THEN Step("failed", <<>>, pos, "err")
    ELSE Step("copy", <<LocalHeader(name)>>, pos, "open")

\* faulty variant: a failed read of the local file is taken for its end
copyChunk_ErrorEndsCopy(f, pos, n, fail) ==
    IF fail THEN Step("close", <<>>, pos, "open")
    ELSE IF pos = Len(f) THEN Step("close", <<>>, pos, "open")
    ELSE Step("copy", [k \in 1..n |-> Data(f[pos + k])], pos + n, "open")

\* one round of io.Copy(writer, file): a read of n more bytes, the end of the file, or
\* a read error, on which pw.CloseWithError
copyChunk(f, pos, n, fail) ==
    IF fail THEN Step("failed", <<>>, pos, "err")
    ELSE IF pos = Len(f) THEN Step("close", <<>>, pos, "open")
    ELSE Step("copy", [k \in 1..n |-> Data(f[pos + k])], pos + n, "open")

\* faulty variant: a failure of zw.Close ends the stream like its success
closeArchive_ErrorIsEof(name, f, pos, fail) ==
    IF fail THEN Step("failed", <<>>, pos, "eof")
    ELSE Step("closing",
              <<Descriptor(SubSeq(f, 1, pos)), CentralHeader(name), EndRecord(1)>>,
              pos, "open")

\* zw.Close: the entry's data descriptor, the central directory and the end record
closeArchive(name, f, pos, fail) ==
    IF fail THEN Step("failed", <<>>, pos, "err")
    ELSE Step("closing",
              <<Descriptor(SubSeq(f, 1, pos)), CentralHeader(name), EndRecord(1)>>,
              pos, "open")

\* the goroutine takes a step: the output goes to the zip.Writer's buffer, and with
\* flush the buffer is written to pw (the write returns when pr has handed it all out)
Advance(s, flush) ==
    /\ worker' = s.worker
    /\ srcPos' = s.pos
    /\ pwClosed' = s.closed
    /\ IF flush /\ s.closed = "open"
       THEN pipe' = zw \o s.out /\ zw' = <<>>
       ELSE pipe' = pipe /\ zw' = zw \o s.out
    /\ UNCHANGED <<coreVars, otherThanZip, srcFile, received, reading>>

\* Upload calls streamingZipCompress and hands the read end to the adapter
StartZip ==
    /\ worker = "idle"
    /\ worker' = "header"
    /\ reading' = "reading"
    /\ UNCHANGED <<coreVars, otherThanZip, srcFile, srcPos, zw, pipe, pwClosed, received>>

CreateHeader ==
    /\ worker = "header" /\ pipe = <<>>
    /\ \E fail \in BOOLEAN, flush \in BOOLEAN :
        Advance(createHeader(EntryName, srcPos, fail), flush)

CopyChunk ==
    /\ worker = "copy" /\ pipe = <<>>
    /\ \E fail \in BOOLEAN, flush \in BOOLEAN, n \in 1..MaxBytes :
        /\ srcPos + n <= Len(srcFile) \/ n = 1
        /\ Advance(copyChunk(srcFile, srcPos, n, fail), flush)

CloseArchive ==
    /\ worker = "close" /\ pipe = <<>>
    /\ \E fail \in BOOLEAN : Advance(closeArchive(EntryName, srcFile, srcPos, fail), TRUE)

\* pw.Close, after zw.Close has returned
ClosePipe ==
    /\ worker = "closing" /\ pipe = <<>>
    /\ worker' = "done"
    /\ pwClosed' = "eof"
    /\ UNCHANGED <<coreVars, otherThanZip, srcFile, srcPos, zw, pipe, received, reading>>

\* the adapter reads: it gets some of what the write in progress offers
Read ==
    /\ reading = "reading" /\ pipe # <<>>
    /\ \E k \in 1..Len(pipe) :
        /\ received' = received \o SubSeq(pipe, 1, k)
        /\ pipe' = SubSeq(pipe, k + 1, Len(pipe))
    /\ UNCHANGED <<coreVars, otherThanZip, srcFile, srcPos, worker, zw, pwClosed, reading>>

\* the adapter's read meets the closed write end: io.EOF or the worker's error
ReadEnd ==
    /\ reading = "reading" /\ pipe = <<>> /\ pwClosed # "open"
    /\ reading' = pwClosed
    /\ UNCHANGED <<coreVars, otherThanZip, srcFile, srcPos, worker, zw, pipe, pwClosed, received>>

\* the adapter gives up before the end (its upload failed)
Abandon ==
    /\ reading = "reading"
    /\ reading' = "abandoned"
    /\ UNCHANGED <<coreVars, otherThanZip, srcFile, srcPos, worker, zw, pipe, pwClosed, received>>

InitZip ==
    /\ CoreIdle
    /\ srcFile \in LocalFiles
    /\ srcPos = 0
    /\ worker = "idle"
    /\ zw = <<>>
    /\ pipe = <<>>
    /\ pwClosed = "open"
    /\ received = <<>>
    /\ reading = "idle"
    /\ AdapterIdle
    /\ CliIdle
    /\ KeyIdle
    /\ TeeIdle
    /\ ListIdle
    /\ MoreIdle

NextZip ==
    StartZip \/ CreateHeader \/ CopyChunk \/ CloseArchive \/ ClosePipe \/ Read \/ ReadEnd
    \/ Abandon

SpecZip == InitZip /\ [][NextZip]_vars

\* an adapter that keeps reading: the goroutine runs whenever it can, and the adapter
\* reads on until its read returns EOF or an error
WorkerStep == CreateHeader \/ CopyChunk \/ CloseArchive \/ ClosePipe

NextZipReading == StartZip \/ WorkerStep \/ Read \/ ReadEnd

SpecZipReading ==
    /\ InitZip
    /\ [][NextZipReading]_vars
    /\ WF_vars(StartZip)
    /\ WF_vars(WorkerStep)
    /\ WF_vars(Read)
    /\ WF_vars(ReadEnd)

\* any adapter, also one that returns before the end of the stream: the goroutine runs
\* whenever it can
SpecZipAbandoning ==
    /\ InitZip
    /\ [][NextZip]_vars
    /\ WF_vars(StartZip)
    /\ WF_vars(WorkerStep)

\* what a reader of the archive finds: the layout of a complete archive
IsArchive(s) ==
    /\ Len(s) >= 4
    /\ s[1].t = "lfh"
    /\ \A k \in 2..(Len(s) - 3) : s[k].t = "data"
    /\ s[Len(s) - 2].t = "dd"
    /\ s[Len(s) - 1].t = "cd"
    /\ s[Len(s)].t = "eocd"

EntryCount(s) == Cardinality({k \in 1..Len(s) : s[k].t = "cd"})

\* the bytes extracted from the archive's entry
Extract(s) == [k \in 1..(Len(s) - 4) |-> Inflate(s[k + 1].byte)]

\* the entry passes the reader's checks: names agree, length and checksum are the
\* data descriptor's, the end record counts the entries
EntryIntact(s) ==
    /\ s[Len(s) - 1].name = s[1].name
    /\ s[Len(s) - 2].n = Len(Extract(s))
    /\ s[Len(s) - 2].byte = Crc(Extract(s))
    /\ s[Len(s)].n = EntryCount(s)

\* ---- the adapters: what FileExists and Download make of the backend's answers ----
Providers == {"s3", "b2", "b2s3", "r2", "sftp"}

\* an answer of the backend to one request.  kind is what the backend reported
\* ("found" for success); typed is the Go error type errors.As / os.IsNotExist can
\* find in the error, text the phrases the error's message contains
Report(kind, typed, text) == [kind |-> kind, typed |-> typed, text |-> text]

Ok == Report("found", "none", {})

\* the forms in which a backend reports that there is no object under the key
AbsentReports(p) ==
    CASE p = "s3" ->
            {Report("absent", "NotFound", {"StatusCode: 404", "NotFound"}),
             Report("absent", "NoSuchKey", {"StatusCode: 404", "NoSuchKey"}),
             Report("absent", "none", {"status code: 404", "NotFound"})}
      [] p \in {"b2s3", "r2"} ->
            {Report("absent", "NotFound", {"StatusCode: 404", "NotFound"}),
             Report("absent", "NoSuchKey", {"StatusCode: 404", "NoSuchKey"}),
             Report("absent", "none", {"status code: 404"}),
             Report("absent", "none", {"StatusCode: 404"})}
      [] p = "b2" -> {Report("absent", "none", {"404", "not_found"})}
      [] p = "sftp" -> {Report("absent", "ErrNotExist", {"file does not exist"})}

\* the failures a backend can answer with instead
Failures(p) ==
    CASE p \in {"s3", "b2s3"} ->
            {Report("auth", "none", {"StatusCode: 403", "Forbidden"}),
             Report("auth", "none", {"StatusCode: 403", "InvalidAccessKeyId"}),
             Report("transport", "none", {"connection refused"}),
             Report("throttled", "none", {"StatusCode: 503", "SlowDown"})}
      [] p = "r2" ->
            {Report("auth", "none", {"StatusCode: 403", "Forbidden"}),
             Report("transport", "none", {"connection refused"}),
             Report("lengthRequired", "none", {"StatusCode: 411", "MissingContentLength"}),
             Report("throttled", "none", {"StatusCode: 503", "SlowDown"})}
      [] p = "b2" ->
            {Report("auth", "none", {"401", "unauthorized"}),
             Report("transport", "none", {"connection refused"}),
             Report("throttled", "none", {"429", "too_many_requests"})}
      [] p = "sftp" ->
            {Report("auth", "ErrPermission", {"permission denied"}),
             Report("transport", "none", {"connection lost"})}

\* what the backend can answer to a request about a key
Answers(p, held) == (IF held THEN {Ok} ELSE AbsentReports(p)) \cup Failures(p)

\* strings.Contains(err.Error(), phrase)
Contains(r, phrase) == phrase \in r.text

\* errors.As(err, &nsk) || errors.As(err, &notFound)
AsNotFound(r) == r.typed \in {"NoSuchKey", "NotFound"}

\* an error value: a *UserError with its message, or another error; Nil is no error
Err(user, msg, cause) == [user |-> user, msg |-> msg, cause |-> cause]

Nil == Err(FALSE, "nil", "none")

\* the backend's error handed on as it is
Raw(r) == Err(FALSE, "backend error", r.kind)

UserError(msg, r) == Err(TRUE, msg, r.kind)

Existence(exists, err) == [exists |-> exists, err |-> err]

S3FileExists(r) ==
    IF r = Ok THEN Existence(TRUE, Nil)
    ELSE IF AsNotFound(r) \/ Contains(r, "NotFound") \/ Contains(r, "status code: 404")
    THEN Existence(FALSE, Nil)
    ELSE Existence(FALSE, Raw(r))

\* faulty variant: only the typed errors count as not found
S3CompatibleFileExists_TypedOnly(r) ==
    IF r = Ok THEN Existence(TRUE, Nil)
    ELSE IF AsNotFound(r) THEN Existence(FALSE, Nil)
    ELSE Existence(FALSE, Raw(r))

S3CompatibleFileExists(r) ==
    IF r = Ok THEN Existence(TRUE, Nil)
    ELSE IF \/ AsNotFound(r)
            \/ Contains(r, "NotFound")
            \/ Contains(r, "status code: 404")
            \/ Contains(r, "StatusCode: 404")
    THEN Existence(FALSE, Nil)
    ELSE Existence(FALSE, Raw(r))

\* faulty variant: every error of HeadObject is taken for an absent object
R2FileExists_AllErrorsAbsent(r) ==
    IF r = Ok THEN Existence(TRUE, Nil) ELSE Existence(FALSE, Nil)

R2FileExists(r) ==
    IF r = Ok THEN Existence(TRUE, Nil)
    ELSE IF \/ AsNotFound(r)
            \/ Contains(r, "NotFound")
            \/ Contains(r, "status code: 404")
            \/ Contains(r, "StatusCode: 404")
    THEN Existence(FALSE, Nil)
    ELSE IF Contains(r, "StatusCode: 411") \/ Contains(r, "MissingContentLength")
    THEN Existence(FALSE, Nil)
    ELSE Existence(FALSE, Err(FALSE, "error checking if file exists", r.kind))

\* bucket: the answer to u.client.Bucket, r: the answer to obj.Attrs
B2FileExists(bucket, r) ==
    IF bucket # Ok THEN Existence(FALSE, Raw(bucket))
    ELSE IF r = Ok THEN Existence(TRUE, Nil)
    ELSE IF Contains(r, "404") THEN Existence(FALSE, Nil)
    ELSE Existence(FALSE, Raw(r))

\* os.IsNotExist(err) on the error of client.Stat
SFTPFileExists(r) ==
    IF r = Ok THEN Existence(TRUE, Nil)
    ELSE IF r.typed = "ErrNotExist" THEN Existence(FALSE, Nil)
    ELSE Existence(FALSE, Raw(r))

\* the FileExists of the adapter getUploader builds for a provider
AdapterFileExists(p, bucket, r) ==
    CASE p = "s3" -> S3FileExists(r)
      [] p = "b2s3" -> S3CompatibleFileExists(r)
      [] p = "r2" -> R2FileExists(r)
      [] p = "b2" -> B2FileExists(bucket, r)
      [] p = "sftp" -> SFTPFileExists(r)

\* strings.ToLower of a phrase of an error message
PhraseLower(t) == IF t = "Access Denied" THEN "access denied" ELSE t

\* strings.Contains(strings.ToLower(err.Error()), phrase)
ContainsLower(r, phrase) == \E t \in r.text : PhraseLower(t) = phrase

formatS3Error(key, r) ==
    IF Contains(r, "InvalidAccessKeyId")
    THEN UserError("Invalid AWS credentials. Please check your access key ID.", r)
    ELSE IF Contains(r, "SignatureDoesNotMatch")
    THEN UserError("Invalid AWS credentials. Please check your secret access key.", r)
    ELSE UserError("Error downloading from S3: " \o key, r)

formatR2Error(key, r) ==
    IF Contains(r, "InvalidAccessKeyId")
    THEN UserError("Invalid Cloudflare R2 credentials. Please check your access key ID.", r)
    ELSE UserError("Error downloading from R2: " \o key, r)

formatB2Error(key, r) ==
    IF Contains(r, "401")
    THEN UserError("Invalid B2 credentials. Please check your application key and key ID.", r)
    ELSE UserError("Error downloading from B2: " \o key, r)

formatB2S3Error(key, r) ==
    IF Contains(r, "InvalidAccessKeyId")
    THEN UserError("Invalid B2 credentials. Please check your access key ID.", r)
    ELSE UserError("Error downloading from B2 S3: " \o key, r)

formatSFTPError(key, r) ==
    IF Contains(r, "permission denied")
    THEN UserError("Permission denied. Please check your SFTP credentials and permissions.", r)
    ELSE IF Contains(r, "connection refused")
    THEN UserError("Could not connect to SFTP server. Please check your connection settings.", r)
    ELSE UserError("Error downloading via SFTP: " \o key, r)

NotFoundMessage(key) == "File not found: " \o key

formatDownloadError(p, key, r) ==
    IF r = Ok THEN Nil
    ELSE IF \/ AsNotFound(r)
            \/ Contains(r, "NoSuchKey")
            \/ Contains(r, "status code: 404")
            \/ Contains(r, "StatusCode: 404")
    THEN UserError(NotFoundMessage(key), r)
    ELSE IF ContainsLower(r, "access denied") \/ Contains(r, "status code: 403")
    THEN UserError("Access denied to file: " \o key
                   \o ". Please check your credentials and permissions.", r)
    ELSE CASE p = "s3" -> formatS3Error(key, r)
           [] p = "r2" -> formatR2Error(key, r)
           [] p = "b2" -> formatB2Error(key, r)
           [] p = "b2s3" -> formatB2S3Error(key, r)
           [] p = "sftp" -> formatSFTPError(key, r)
           [] OTHER -> UserError("Failed to download file: " \o key, r)

ReadError(key, r) == UserError("Error reading file content: " \o key, r)

\* S3Uploader.Download and S3CompatibleUploader.Download: r answers GetObject, copy
\* the io.Copy of the body
S3Download(p, key, r, copy) ==
    IF r # Ok THEN formatDownloadError(p, key, r)
    ELSE IF copy # Ok THEN ReadError(key, copy)
    ELSE Nil

\* B2Uploader.Download: bucket answers u.client.Bucket; NewReader returns no error, the
\* backend's answer r about the object comes out of the reads of io.Copy
B2Download(key, bucket, r, copy) ==
    IF bucket # Ok THEN formatDownloadError("b2", key, bucket)
    ELSE IF r # Ok THEN ReadError(key, r)
    ELSE IF copy # Ok THEN ReadError(key, copy)
    ELSE Nil

\* SFTPUploader.Download: r answers client.Open
SFTPDownload(key, r, copy) ==
    IF r # Ok
    THEN IF r.typed = "ErrNotExist" THEN UserError(NotFoundMessage(key), r)
         ELSE IF r.typed = "ErrPermission"
         THEN UserError("Permission denied accessing file: " \o key, r)
         ELSE formatSFTPError(key, r)
    ELSE IF copy # Ok THEN ReadError(key, copy)
    ELSE Nil

AdapterDownload(p, key, bucket, r, copy) ==
    CASE p \in {"s3", "b2s3", "r2"} -> S3Download(p, key, r, copy)
      [] p = "b2" -> B2Download(key, bucket, r, copy)
      [] p = "sftp" -> SFTPDownload(key, r, copy)

\* storage.Download: the output file is created first, then the adapter downloads
Download(p, key, created, bucket, r, copy) ==
    IF ~created THEN Err(FALSE, "create output file", "none")
    ELSE AdapterDownload(p, key, bucket, r, copy)

\* the download command: what the user is shown and the exit code
Shown(err) ==
    IF err = Nil THEN [message |-> "", exit |-> 0]
    ELSE IF err.user THEN [message |-> err.msg, exit |-> 1]
    ELSE [message |-> "An unexpected error occurred while downloading the file", exit |-> 1]

\* one adapter operation of a run with the answers it got and what it returned
NoCall ==
    [op |-> "none", key |-> "", held |-> "never", bucket |-> Ok, report |-> Ok,
     exists |-> FALSE, err |-> Nil, shown |-> Shown(Nil)]

\* the adapter uploads an object
Put ==
    /\ \E key \in PruneKeys :
        /\ objects' = [objects EXCEPT ![key] = "present"]
        /\ lastCall' = [NoCall EXCEPT !.op = "Upload", !.key = key, !.held = objects[key]]
    /\ UNCHANGED <<coreVars, zipVars, cliVars, keyVars, teeVars, listVars, moreVars, provider>>

\* the adapter deletes an object
Del ==
    /\ \E key \in PruneKeys :
        /\ objects[key] = "present"
        /\ objects' = [objects EXCEPT ![key] = "deleted"]
        /\ lastCall' = [NoCall EXCEPT !.op = "Delete", !.key = key, !.held = objects[key]]
    /\ UNCHANGED <<coreVars, zipVars, cliVars, keyVars, teeVars, listVars, moreVars, provider>>

\* the answer to u.client.Bucket: only the B2 adapter asks for the bucket first
BucketAnswers(p) == IF p = "b2" THEN {Ok} \cup Failures(p) ELSE {Ok}

ExistsProbe ==
    /\ \E key \in PruneKeys, bucket \in BucketAnswers(provider) :
       \E r \in Answers(provider, objects[key] = "present") :
        lastCall' = [NoCall EXCEPT !.op = "FileExists", !.key = key, !.held = objects[key],
                                   !.bucket = bucket, !.report = r,
                                   !.exists = AdapterFileExists(provider, bucket, r).exists,
                                   !.err = AdapterFileExists(provider, bucket, r).err]
    /\ UNCHANGED <<coreVars, zipVars, cliVars, keyVars, teeVars, listVars, moreVars, provider, objects>>

DownloadCmd ==
    /\ \E key \in PruneKeys, created \in BOOLEAN, bucket \in BucketAnswers(provider),
          copy \in {Ok} \cup {f \in Failures(provider) : f.kind = "transport"} :
       \E r \in Answers(provider, objects[key] = "present") :
        LET err == Download(provider, key, created, bucket, r, copy)
        IN  lastCall' = [NoCall EXCEPT !.op = IF created THEN "Download" ELSE "Create",
                                       !.key = key, !.held = objects[key],
                                       !.bucket = bucket, !.report = r,
                                       !.err = err, !.shown = Shown(err)]
    /\ UNCHANGED <<coreVars, zipVars, cliVars, keyVars, teeVars, listVars, moreVars, provider, objects>>

InitAdapter ==
    /\ CoreIdle
    /\ ZipIdle
    /\ provider \in Providers
    /\ objects = [key \in PruneKeys |-> "never"]
    /\ lastCall = NoCall
    /\ CliIdle
    /\ KeyIdle
    /\ TeeIdle
    /\ ListIdle
    /\ MoreIdle

NextAdapter == Put \/ Del \/ ExistsProbe \/ DownloadCmd

SpecAdapter == InitAdapter /\ [][NextAdapter]_vars

\* ---- one run of the command line: app.Run with its Before and After hooks ----
Commands == {"upload", "download", "prune"}

\* Before: logger.New; its error ends the run (the After hook still runs)
beforeHook(loggerOk) ==
    IF loggerOk THEN [logger |-> "open", stage |-> "action", exit |-> 0]
    ELSE [logger |-> "none", stage |-> "after", exit |-> 1]

\* getUploader: the adapter of the provider; for sftp the flags host, user and path must
\* be given and NewSFTPUploader must get through authentication, dialling, the SFTP
\* handshake and MkdirAll, closing what it opened when a later step fails
getUploader(p, flagsGiven, connected) ==
    IF p = "sftp"
    THEN IF ~flagsGiven THEN [session |-> "none", err |-> "SFTP provider requires host, user, and path"]
         ELSE IF ~connected THEN [session |-> "none", err |-> "failed to connect"]
         ELSE [session |-> "open", err |-> "nil"]
    ELSE IF ~connected THEN [session |-> "none", err |-> "credentials"]
    ELSE [session |-> "none", err |-> "nil"]

\* After: getLogger and log.Close; the hook does nothing else
afterHook(lg, sess, n) ==
    [logger |-> IF lg = "open" THEN "closed" ELSE lg, session |-> sess, closes |-> n]

\* SFTPUploader.Close: closes the SFTP client and the SSH connection
Close(sess, n) == [session |-> "closed", closes |-> n + 1]

\* the Before hook of the app
Before ==
    /\ stage = "start"
    /\ \E loggerOk \in BOOLEAN :
        /\ logger' = beforeHook(loggerOk).logger
        /\ stage' = beforeHook(loggerOk).stage
        /\ exitCode' = beforeHook(loggerOk).exit
    /\ UNCHANGED <<coreVars, zipVars, adapterVars, keyVars, teeVars, listVars, moreVars, command, flags, session, closes>>

\* the command's Action up to its uploader: an error is returned as cli.Exit, which
\* ends the process on the spot
Action ==
    /\ stage = "action"
    /\ \E connected \in BOOLEAN :
        LET u == getUploader(provider, flags, connected)
        IN  /\ session' = u.session
            /\ stage' = IF u.err = "nil" THEN "command" ELSE "exited"
            /\ exitCode' = IF u.err = "nil" THEN exitCode ELSE 1
    /\ UNCHANGED <<coreVars, zipVars, adapterVars, keyVars, teeVars, listVars, moreVars, command, flags, logger, closes>>

\* storage.Upload, storage.Download or storage.Prune runs and returns; exitsNow: its
\* error is a cli.Exit (the download command wraps every error in one)
Command ==
    /\ stage = "command"
    /\ \E ok \in BOOLEAN, exitsNow \in BOOLEAN :
        /\ command = "download" => exitsNow
        /\ stage' = IF ~ok /\ exitsNow THEN "exited" ELSE "after"
        /\ exitCode' = IF ok THEN 0 ELSE 1
    /\ UNCHANGED <<coreVars, zipVars, adapterVars, keyVars, teeVars, listVars, moreVars, command, flags, logger, session, closes>>

\* the After hook of the app, and the return of app.Run to main
After ==
    /\ stage = "after"
    /\ logger' = afterHook(logger, session, closes).logger
    /\ session' = afterHook(logger, session, closes).session
    /\ closes' = afterHook(logger, session, closes).closes
    /\ stage' = "exited"
    /\ UNCHANGED <<coreVars, zipVars, adapterVars, keyVars, teeVars, listVars, moreVars, command, flags, exitCode>>

InitCli ==
    /\ CoreIdle
    /\ ZipIdle
    /\ provider \in Providers
    /\ objects = <<>>
    /\ lastCall = <<>>
    /\ command \in Commands
    /\ flags \in BOOLEAN
    /\ stage = "start"
    /\ logger = "none"
    /\ session = "none"
    /\ closes = 0
    /\ exitCode = 0
    /\ KeyIdle
    /\ TeeIdle
    /\ ListIdle
    /\ MoreIdle

NextCli == Before \/ Action \/ Command \/ After

SpecCli == InitCli /\ [][NextCli]_vars

\* ---- constructKey on paths as character strings (package path/filepath of Go 1.21) ----
\* a string is a sequence of characters; a name is one character that is no separator
GoOS == {"unix", "windows"}

PrefixChars == {"p", "/", "\\"}

\* the --keyprefix values: every string of up to MaxPrefixLen characters
KeyPrefixes == UNION {[1..n -> PrefixChars] : n \in 0..MaxPrefixLen}

\* the walk root and the files under it, as lists of path elements
RootDirs == {<<"r">>}

SubPaths == {<<"f">>, <<"d", "f">>, <<"d", "d", "f">>}

Separator(goos) == IF goos = "windows" THEN "\\" ELSE "/"

\* os.IsPathSeparator
IsPathSeparator(goos, c) == c = "/" \/ (goos = "windows" /\ c = "\\")

\* filepath.ToSlash and filepath.FromSlash: they change a string only where the
\* separator is not the slash
ToSlash(goos, s) == [k \in 1..Len(s) |-> IF s[k] = Separator(goos) THEN "/" ELSE s[k]]

FromSlash(goos, s) == [k \in 1..Len(s) |-> IF s[k] = "/" THEN Separator(goos) ELSE s[k]]

RECURSIVE Elements(_, _)
\* the non-empty path elements of a string
Elements(goos, s) ==
    IF s = <<>> THEN <<>>
    ELSE IF IsPathSeparator(goos, s[1]) THEN Elements(goos, Tail(s))
    ELSE LET n == CHOOSE k \in 1..Len(s) :
                      /\ \A j \in 1..k : ~IsPathSeparator(goos, s[j])
                      /\ k = Len(s) \/ IsPathSeparator(goos, s[k + 1])
         IN  <<SubSeq(s, 1, n)>> \o Elements(goos, SubSeq(s, n + 1, Len(s)))

RECURSIVE Joined(_, _)
\* strings.Join
Joined(elems, sep) ==
    IF elems = <<>> THEN <<>>
    ELSE IF Len(elems) = 1 THEN elems[1]
    ELSE elems[1] \o sep \o Joined(Tail(elems), sep)

RECURSIVE uncLen(_, _, _, _)
\* the length of the volume name of a UNC path: up to the second separator behind the
\* two leading ones, or the whole path (k: position looked at, count: separators seen)
uncLen(goos, s, k, count) ==
    IF k > Len(s) THEN Len(s)
    ELSE IF IsPathSeparator(goos, s[k])
    THEN IF count = 1 THEN k - 1 ELSE uncLen(goos, s, k + 1, count + 1)
    ELSE uncLen(goos, s, k + 1, count)

\* volumeNameLen: no volume on Unix; on Windows (no drive letters among the characters)
\* a path that starts with two separators is a UNC path
volumeNameLen(goos, s) ==
    IF goos = "unix" THEN 0
    ELSE IF Len(s) = 0 \/ ~IsPathSeparator(goos, s[1]) THEN 0
    ELSE IF Len(s) >= 2 /\ IsPathSeparator(goos, s[2]) THEN uncLen(goos, s, 3, 0)
    ELSE 0

\* filepath.Clean (the strings here have no "." or ".." elements): the volume is kept,
\* separators are made native and single, a trailing separator goes
Clean(goos, s) ==
    LET v == volumeNameLen(goos, s)
        rest == SubSeq(s, v + 1, Len(s))
        rooted == rest # <<>> /\ IsPathSeparator(goos, rest[1])
        body == (IF rooted THEN <<Separator(goos)>> ELSE <<>>)
                \o Joined(Elements(goos, rest), <<Separator(goos)>>)
    IN  IF rest = <<>>
        THEN IF v > 1 THEN FromSlash(goos, s) ELSE s \o <<".">>
        ELSE FromSlash(goos, SubSeq(s, 1, v)) \o body

\* filepath.Join of two elements
Join(goos, a, b) ==
    IF a = <<>> /\ b = <<>> THEN <<>>
    ELSE IF a = <<>> THEN Clean(goos, b)
    ELSE IF b = <<>> THEN Clean(goos, a)
    ELSE IF goos = "windows" /\ IsPathSeparator(goos, a[Len(a)])
    THEN Clean(goos, a \o Joined(Elements(goos, b), <<Separator(goos)>>))
    ELSE Clean(goos, a \o <<Separator(goos)>> \o b)

\* strings.TrimPrefix(s, "/")
TrimPrefix(s) == IF s # <<>> /\ s[1] = "/" THEN Tail(s) ELSE s

\* filepath.Rel(rootDir, path) for a path under rootDir
Rel(goos, rootDir, path) ==
    Joined([k \in 1..(Len(path) - Len(rootDir)) |-> <<path[Len(rootDir) + k]>>],
           <<Separator(goos)>>)

\* constructKey
constructKeyChars(goos, rootDir, keyPrefix, path) ==
    LET relPath == Rel(goos, rootDir, path)
        noVolume == SubSeq(relPath, volumeNameLen(goos, relPath) + 1, Len(relPath))
    IN  TrimPrefix(ToSlash(goos, Join(goos, keyPrefix, ToSlash(goos, noVolume))))

\* constructKey is called on a file of the walk, any number of times
ConstructKey ==
    /\ Len(built) < MaxCalls
    /\ built' = Append(built, constructKeyChars(targetOS, argRootDir, argKeyPrefix, argPath))
    /\ UNCHANGED <<coreVars, zipVars, adapterVars, cliVars, teeVars, listVars, moreVars, targetOS, argRootDir, argKeyPrefix, argPath>>

InitKey ==
    /\ CoreIdle
    /\ ZipIdle
    /\ AdapterIdle
    /\ CliIdle
    /\ targetOS \in GoOS
    /\ argRootDir \in RootDirs
    /\ argKeyPrefix \in KeyPrefixes
    /\ \E sub \in SubPaths : argPath = argRootDir \o sub
    /\ built = <<>>
    /\ TeeIdle
    /\ ListIdle
    /\ MoreIdle

NextKey == ConstructKey

SpecKey == InitKey /\ [][NextKey]_vars

\* ---- the progress bar: two transfers of the same payload, with and without it ----
\* a transfer under way: the bytes that reached the far side (the adapter for Upload,
\* the output file for Download), the error that ended it, and whether it is over
Transferring(moved, err, over) == [moved |-> moved, err |-> err, over |-> over]

\* one Read of the adapter from the Upload reader, resp. one Write of the adapter to the
\* Download writer: without the bar the chunk passes; with it, io.TeeReader resp.
\* io.MultiWriter passes the chunk and then writes it to the bar, and an error of that
\* write is the error of the Read resp. Write
passChunk(run, chunk, nonInteractive, barOk) ==
    IF run.over THEN run
    ELSE IF nonInteractive \/ barOk THEN Transferring(run.moved \o chunk, "nil", FALSE)
    ELSE Transferring(run.moved \o chunk, "progress bar write error", TRUE)

\* the end of the payload
passEnd(run) == IF run.over THEN run ELSE Transferring(run.moved, "nil", TRUE)

\* the adapter call of the transfer: Upload gets the key and the size, Download the key
TransferCall(dir, bytes) ==
    IF dir = "upload" THEN [op |-> "Upload", key |-> EntryName, size |-> Len(bytes)]
    ELSE [op |-> "Download", key |-> EntryName, size |-> 0]

\* the next chunk of the payload goes through both transfers
PassChunk ==
    /\ ~quiet.over
    /\ Len(quiet.moved) < Len(payload)
    /\ \E n \in 1..(Len(payload) - Len(quiet.moved)), barOk \in BOOLEAN :
        LET chunk == SubSeq(payload, Len(quiet.moved) + 1, Len(quiet.moved) + n)
        IN  /\ quiet' = passChunk(quiet, chunk, TRUE, barOk)
            /\ loud' = passChunk(loud, chunk, FALSE, barOk)
    /\ UNCHANGED <<coreVars, zipVars, adapterVars, cliVars, keyVars, listVars, moreVars, direction, payload>>

\* the payload is through
PassEnd ==
    /\ ~quiet.over
    /\ Len(quiet.moved) = Len(payload)
    /\ quiet' = passEnd(quiet)
    /\ loud' = passEnd(loud)
    /\ UNCHANGED <<coreVars, zipVars, adapterVars, cliVars, keyVars, listVars, moreVars, direction, payload>>

InitTee ==
    /\ CoreIdle
    /\ ZipIdle
    /\ AdapterIdle
    /\ CliIdle
    /\ KeyIdle
    /\ direction \in {"upload", "download"}
    /\ payload \in UNION {[1..n -> Bytes] : n \in 0..(MaxBytes + 1)}
    /\ quiet = Transferring(<<>>, "nil", FALSE)
    /\ loud = Transferring(<<>>, "nil", FALSE)
    /\ ListIdle
    /\ MoreIdle

NextTee == PassChunk \/ PassEnd

SpecTee == InitTee /\ [][NextTee]_vars

\* ---- List: a listing the backend hands out page by page ----
\* the two forms of List: the paginator loop of the SDK v2 adapters and the page
\* callback of the SDK v1 adapters
ListForms == {"paginator", "pages"}

KeyDirs == <<"a", "b">>

\* every key a bucket can hold, in the key order in which a backend lists them
AllKeys == [i \in 1..(Len(KeyDirs) * MaxKeys) |->
               <<KeyDirs[((i - 1) \div MaxKeys) + 1], ((i - 1) % MaxKeys) + 1>>]

ListPrefixes == {""} \cup {KeyDirs[i] : i \in 1..Len(KeyDirs)}

HasPrefix(key, prefix) == prefix = "" \/ key[1] = prefix

UnderPrefix(key) == key \in bucketKeys /\ HasPrefix(key, listPrefix)

\* what the backend holds under the prefix
Matching == SelectSeq(AllKeys, UnderPrefix)

NoToken == 0 - 1

NotReturned == [keys |-> <<>>, err |-> "pending"]

\* the paginator: before the first page, or while the last page named a continuation
HasMorePages == firstPage \/ nextToken # NoToken

\* the backend's answer to one request: n keys behind the continuation token, and a
\* token for the rest if there is one
Page(n) ==
    LET from == IF nextToken = NoToken THEN 0 ELSE nextToken
    IN  [contents |-> SubSeq(Matching, from + 1, from + n),
         next |-> IF from + n < Len(Matching) THEN from + n ELSE NoToken]

\* List after a page request: an error ends it (the paginator loop returns nil with the
\* error, the page callback form the keys so far with the error); a page is appended
listPage_PageErrorIsSuccess(form, keys, page, ok) ==
    IF ~ok
    THEN [keys |-> keys, ret |-> [keys |-> keys, err |-> "nil"]]
    ELSE [keys |-> keys \o page.contents, ret |-> NotReturned]

listPage(form, keys, page, ok) ==
    IF ~ok
    THEN [keys |-> keys,
          ret |-> [keys |-> IF form = "paginator" THEN <<>> ELSE keys, err |-> "PageErr"]]
    ELSE [keys |-> keys \o page.contents, ret |-> NotReturned]

\* one turn of the loop: the next page is requested
NextPage ==
    /\ listRet = NotReturned
    /\ HasMorePages
    /\ \E ok \in BOOLEAN :
       \E n \in (IF Len(Matching) = 0 THEN {0}
                 ELSE 1..(Len(Matching) - (IF nextToken = NoToken THEN 0 ELSE nextToken))) :
        LET l == listPage(listForm, listKeys, Page(n), ok)
        IN  /\ listKeys' = l.keys
            /\ listRet' = l.ret
            /\ fetched' = Append(fetched, IF ok THEN "page" ELSE "error")
            /\ firstPage' = IF ok THEN FALSE ELSE firstPage
            /\ nextToken' = IF ok THEN Page(n).next ELSE nextToken
    /\ UNCHANGED <<coreVars, zipVars, adapterVars, cliVars, keyVars, teeVars, moreVars,
                   listForm, bucketKeys, listPrefix>>

\* no more pages: List returns the keys
ListReturn ==
    /\ listRet = NotReturned
    /\ ~HasMorePages
    /\ listRet' = [keys |-> listKeys, err |-> "nil"]
    /\ UNCHANGED <<coreVars, zipVars, adapterVars, cliVars, keyVars, teeVars, moreVars,
                   listForm, bucketKeys, listPrefix, firstPage, nextToken, listKeys,
                   fetched>>

InitList ==
    /\ CoreIdle
    /\ ZipIdle
    /\ AdapterIdle
    /\ CliIdle
    /\ KeyIdle
    /\ TeeIdle
    /\ MoreIdle
    /\ listForm \in ListForms
    /\ bucketKeys \in SUBSET {AllKeys[i] : i \in 1..Len(AllKeys)}
    /\ listPrefix \in ListPrefixes
    /\ firstPage = TRUE
    /\ nextToken = NoToken
    /\ listKeys = <<>>
    /\ fetched = <<>>
    /\ listRet = NotReturned

NextList == NextPage \/ ListReturn

SpecList == InitList /\ [][NextList]_vars

\* ---- a per-file adapter call in flight while the context is cancelled ----
PerFileOps == {"FileExists", "GetFileInfo", "Upload"}

\* the requests an operation still has to make: one for FileExists and GetFileInfo, one
\* per chunk of the stream for Upload
RoundTrips(op) == IF op = "Upload" THEN 1..(MaxCalls + 1) ELSE {1}

NoneInFlight == [op |-> "none", left |-> 0]

\* the adapter hands its ctx on to the client's requests: every adapter but SFTP, whose
\* methods take ctx and never use it
PassesContext(p) == p # "sftp"

\* the next request of the call: a client that was given the context fails it once the
\* context is cancelled; otherwise the request is made, and the call returns after its
\* last request or on a failure of the backend
callStep(p, call, done, fail) ==
    IF PassesContext(p) /\ done THEN [inflight |-> NoneInFlight, ret |-> "context canceled"]
    ELSE IF fail THEN [inflight |-> NoneInFlight, ret |-> "backend error"]
    ELSE IF call.left = 1 THEN [inflight |-> NoneInFlight, ret |-> "nil"]
    ELSE [inflight |-> [op |-> call.op, left |-> call.left - 1], ret |-> "pending"]

otherThanCancel ==
    <<coreVars, zipVars, adapterVars, cliVars, keyVars, teeVars, listVars, putVars,
      retryVars, fetchVars, partsVars, sweepVars>>

\* the walk callback calls the adapter for the file: its first call, or the next one
\* after a call that returned nil
BeginCall ==
    /\ inflight = NoneInFlight /\ callRet \in {"pending", "nil"}
    /\ \E op \in PerFileOps : \E n \in RoundTrips(op) :
        inflight' = [op |-> op, left |-> n]
    /\ callRet' = "pending"
    /\ cutShort' = FALSE
    /\ UNCHANGED <<otherThanCancel, adapter, ctxGone>>

\* the context is cancelled
CancelContext ==
    /\ ~ctxGone
    /\ ctxGone' = TRUE
    /\ cutShort' = (inflight # NoneInFlight)
    /\ UNCHANGED <<otherThanCancel, adapter, inflight, callRet>>

CallStep ==
    /\ inflight # NoneInFlight
    /\ \E fail \in BOOLEAN :
        LET s == callStep(adapter, inflight, ctxGone, fail)
        IN  /\ inflight' = s.inflight
            /\ callRet' = s.ret
    /\ UNCHANGED <<otherThanCancel, adapter, ctxGone, cutShort>>

InitCancel ==
    /\ CoreIdle
    /\ ZipIdle
    /\ AdapterIdle
    /\ CliIdle
    /\ KeyIdle
    /\ TeeIdle
    /\ ListIdle
    /\ PutIdle
    /\ RetryIdle
    /\ FetchIdle
    /\ PartsIdle
    /\ SweepIdle
    /\ adapter \in Providers
    /\ inflight = NoneInFlight
    /\ ctxGone = FALSE
    /\ cutShort = FALSE
    /\ callRet = "pending"

NextCancel == BeginCall \/ CancelContext \/ CallStep

SpecCancel == InitCancel /\ [][NextCancel]_vars

\* ---- the adapters' Upload: what is declared to the backend as the length ----
\* the size Upload hands the adapter with the reader: unknown for an archive stream
uploadSize(sc, stream) == IF sc THEN 0 - 1 ELSE Len(stream)

\* a request of an adapter: the client call it makes, whether the call declares a
\* content length and which, and the stream it is given
Request(kind, declares, declared, body) ==
    [kind |-> kind, declares |-> declares, declared |-> declared, body |-> body]

\* S3Uploader.Upload and B2S3Uploader.Upload: the transfer manager, which reads the
\* body part by part into buffers and sends the parts
managerUpload(size, stream) == <<Request("manager.Upload", TRUE, size, stream)>>

\* R2Uploader.Upload: one PutObject with ContentLength set to the size it was handed
r2Upload(size, stream) == <<Request("PutObject", TRUE, size, stream)>>

\* B2Uploader.Upload: io.Copy into the object's writer, which sends chunks
b2Upload(size, stream) == <<Request("b2.Writer", FALSE, 0, stream)>>

\* SFTPUploader.Upload: io.Copy into the created remote file
sftpUpload(size, stream) == <<Request("sftp.File", FALSE, 0, stream)>>

adapterUpload(p, size, stream) ==
    CASE p = "r2" -> r2Upload(size, stream)
      [] p = "b2" -> b2Upload(size, stream)
      [] p = "sftp" -> sftpUpload(size, stream)
      [] OTHER -> managerUpload(size, stream)

otherThanPut ==
    <<coreVars, zipVars, adapterVars, cliVars, keyVars, teeVars, listVars, cancelVars,
      retryVars, fetchVars, partsVars, sweepVars>>

\* Upload calls the adapter, which makes its request
PutUpload ==
    /\ putRet = "idle"
    /\ requests' = adapterUpload(putAdapter, uploadSize(putCompress, putStream), putStream)
    /\ putRet' = "pending"
    /\ UNCHANGED <<otherThanPut, putAdapter, putCompress, putStream>>

\* the backend answers and the adapter returns
PutReturn ==
    /\ putRet = "pending"
    /\ \E err \in {"nil", "backend error"} : putRet' = err
    /\ UNCHANGED <<otherThanPut, putAdapter, putCompress, putStream, requests>>

InitPut ==
    /\ CoreIdle
    /\ ZipIdle
    /\ AdapterIdle
    /\ CliIdle
    /\ KeyIdle
    /\ TeeIdle
    /\ ListIdle
    /\ CancelIdle
    /\ RetryIdle
    /\ FetchIdle
    /\ PartsIdle
    /\ SweepIdle
    /\ putAdapter \in Providers
    /\ putCompress \in BOOLEAN
    /\ putStream \in LocalFiles
    /\ requests = <<>>
    /\ putRet = "idle"

NextPut == PutUpload \/ PutReturn

SpecPut == InitPut /\ [][NextPut]_vars

\* ---- a failed transfer and the next run over the unchanged directory ----
\* the length of what Upload hands the adapter for the file: the archive or the file
TransferSize(c, e) == IF shouldCompress(c, e) THEN ZipSize(e.size) ELSE e.size

\* the adapter's Upload fails after k bytes: SFTPUploader.Upload has created the remote
\* file before it copies and leaves it as it is; the puts of the object stores store the
\* object whole or not at all
LeavesPartial(p) == p = "sftp"

failedUpload(p, rem, key, t, k) == IF LeavesPartial(p) THEN Stored(rem, key, t, k) ELSE rem

\* the entry of the walk callback for the file: eligibility check and transfer
retryVisit(p, rem, t, c, e, fails, k) ==
    LET key == uploadKey(c, e)
        d == fileUploadEligible(rem, key, e, shouldCompress(c, e), FALSE, FALSE)
    IN  IF ~d.eligible THEN [store |-> rem, stage |-> "skipped", verdict |-> d]
        ELSE IF fails
        THEN [store |-> failedUpload(p, rem, key, t, k), stage |-> "failed", verdict |-> d]
        ELSE [store |-> Stored(rem, key, t, TransferSize(c, e)), stage |-> "uploaded",
              verdict |-> d]

otherThanRetry ==
    <<coreVars, zipVars, adapterVars, cliVars, keyVars, teeVars, listVars, cancelVars,
      putVars, fetchVars, partsVars, sweepVars>>

\* an Upload run visits the file; the first run's transfer may fail partway
RetryRun ==
    /\ retryRuns < 2
    /\ \E fails \in BOOLEAN, k \in 0..(TransferSize(retryCompress, retryFile) - 1) :
        LET v == retryVisit(retryAdapter, retryStore, retryClock, retryCompress,
                            retryFile, fails /\ retryRuns = 0, k)
        IN  /\ retryStore' = v.store
            /\ retryStage' = Append(retryStage, v.stage)
            /\ retryVerdict' = v.verdict
    /\ retryRuns' = retryRuns + 1
    /\ UNCHANGED <<otherThanRetry, retryAdapter, retryFile, retryCompress, retryClock>>

\* time passes between the runs
RetryTick ==
    /\ retryClock < MaxTime
    /\ retryClock' = retryClock + 1
    /\ UNCHANGED <<otherThanRetry, retryAdapter, retryFile, retryCompress, retryStore,
                   retryStage, retryVerdict, retryRuns>>

InitRetry ==
    /\ CoreIdle
    /\ ZipIdle
    /\ AdapterIdle
    /\ CliIdle
    /\ KeyIdle
    /\ TeeIdle
    /\ ListIdle
    /\ CancelIdle
    /\ PutIdle
    /\ FetchIdle
    /\ PartsIdle
    /\ SweepIdle
    /\ retryAdapter \in Providers
    /\ retryFile \in {MkFile(1, a) : a \in FileAttrs}
    /\ retryCompress \in BOOLEAN
    /\ retryStore = <<>>
    /\ retryClock \in {0, StartTime}
    /\ retryStage = <<>>
    /\ retryVerdict = NotAsked
    /\ retryRuns = 0

NextRetry == RetryRun \/ RetryTick

SpecRetry == InitRetry /\ [][NextRetry]_vars

\* ---- Download and the local output file ----
\* a file, local or remote: whether it exists, and its bytes
NoFile == [exists |-> FALSE, bytes |-> <<>>]

File(bytes) == [exists |-> TRUE, bytes |-> bytes]

FilesOrNone == {NoFile} \cup {File(bs) : bs \in LocalFiles}

\* Download: without a key it exits at once; os.Create makes the output file or empties
\* an existing one; then the adapter writes the object into it and may fail before its
\* first write (the key is not there) or after cut bytes
download(keyGiven, local, object, createFails, cut) ==
    IF ~keyGiven THEN [local |-> local, ret |-> "No key specified"]
    ELSE IF createFails THEN [local |-> local, ret |-> "Failed to create output file"]
    ELSE IF ~object.exists THEN [local |-> File(<<>>), ret |-> "adapter: no object"]
    ELSE IF cut < Len(object.bytes)
    THEN [local |-> File(SubSeq(object.bytes, 1, cut)), ret |-> "adapter: failed partway"]
    ELSE [local |-> File(object.bytes), ret |-> "nil"]

otherThanFetch ==
    <<coreVars, zipVars, adapterVars, cliVars, keyVars, teeVars, listVars, cancelVars,
      putVars, retryVars, partsVars, sweepVars>>

DownloadRun ==
    /\ fetchRet = "pending"
    /\ \E keyGiven \in BOOLEAN, createFails \in BOOLEAN, cut \in 0..Len(fetchObject.bytes) :
        LET r == download(keyGiven, fetchLocal, fetchObject, createFails, cut)
        IN  /\ fetchLocal' = r.local
            /\ fetchRet' = r.ret
    /\ UNCHANGED <<otherThanFetch, fetchBefore, fetchObject>>

\* the user looks at the result and sets up the next download
DownloadAgain ==
    /\ fetchRet # "pending"
    /\ fetchRet' = "pending"
    /\ fetchBefore' = fetchLocal
    /\ fetchObject' \in FilesOrNone
    /\ UNCHANGED <<otherThanFetch, fetchLocal>>

InitFetch ==
    /\ CoreIdle
    /\ ZipIdle
    /\ AdapterIdle
    /\ CliIdle
    /\ KeyIdle
    /\ TeeIdle
    /\ ListIdle
    /\ CancelIdle
    /\ PutIdle
    /\ RetryIdle
    /\ PartsIdle
    /\ SweepIdle
    /\ fetchBefore \in FilesOrNone
    /\ fetchLocal = fetchBefore
    /\ fetchObject \in FilesOrNone
    /\ fetchRet = "pending"

NextFetch == DownloadRun \/ DownloadAgain

SpecFetch == InitFetch /\ [][NextFetch]_vars

\* ---- Download through the multipart downloader and writerAtWrapper ----
\* the remote objects, as sequences of parts (one byte stands for the bytes of a part)
PartObjects == UNION {[1..n -> Bytes] : n \in 1..(MaxBytes + 1)}

\* writerAtWrapper.WriteAt: under the mutex, p is written to the wrapped writer, which
\* appends it; off is not used
WriteAt(w, p, off) == w \o p

otherThanParts ==
    <<coreVars, zipVars, adapterVars, cliVars, keyVars, teeVars, listVars, cancelVars,
      putVars, retryVars, fetchVars, sweepVars>>

\* the downloader hands the next part to one of its workers
FetchPart ==
    /\ partsDone = FALSE
    /\ handedOut < Len(partObject)
    /\ Cardinality(flying) < MaxInFlight
    /\ handedOut' = handedOut + 1
    /\ flying' = flying \cup {handedOut + 1}
    /\ UNCHANGED <<otherThanParts, partObject, dest, partsDone>>

\* a worker has received its part and writes it at the part's offset
CompletePart ==
    /\ \E i \in flying :
        /\ dest' = WriteAt(dest, <<partObject[i]>>, i - 1)
        /\ flying' = flying \ {i}
    /\ UNCHANGED <<otherThanParts, partObject, handedOut, partsDone>>

\* all parts are written: Download returns nil
PartsReturn ==
    /\ partsDone = FALSE
    /\ handedOut = Len(partObject) /\ flying = {}
    /\ partsDone' = TRUE
    /\ UNCHANGED <<otherThanParts, partObject, handedOut, flying, dest>>

InitParts ==
    /\ CoreIdle
    /\ ZipIdle
    /\ AdapterIdle
    /\ CliIdle
    /\ KeyIdle
    /\ TeeIdle
    /\ ListIdle
    /\ CancelIdle
    /\ PutIdle
    /\ RetryIdle
    /\ FetchIdle
    /\ SweepIdle
    /\ partObject \in PartObjects
    /\ handedOut = 0
    /\ flying = {}
    /\ dest = <<>>
    /\ partsDone = FALSE

NextParts == FetchPart \/ CompletePart \/ PartsReturn

SpecParts == InitParts /\ [][NextParts]_vars

\* ---- List(prefix) on the object stores and on SFTP ----
\* keys as character strings: "f", "d/f" and "dd/f"
ObjectKeys == {<<"f">>, <<"d", "/", "f">>, <<"d", "d", "/", "f">>}

\* the base path of the SFTP adapter
BasePath == <<"/", "b">>

\* strings.HasPrefix
HasStringPrefix(s, p) == Len(p) <= Len(s) /\ SubSeq(s, 1, Len(p)) = p

\* every string that is a prefix of a key
KeyStringPrefixes == UNION {{SubSeq(k, 1, n) : n \in 0..Len(k)} : k \in ObjectKeys}

\* the object stores list the keys that start with the prefix as a string
prefixList(stored, p) == [keys |-> {k \in stored : HasStringPrefix(k, p)}, err |-> "nil"]

\* SFTPUploader.Upload writes the key's object to the file basePath/key
RemotePath(k) == Join("unix", BasePath, k)

\* the path is, or lies in the directory tree of, the path above
IsUnder(path, above) ==
    LET e == Elements("unix", path)
        a == Elements("unix", above)
    IN  Len(a) <= Len(e) /\ SubSeq(e, 1, Len(a)) = a

\* SFTPUploader.List walks the tree at basePath/prefix: a walk of a path that does not
\* exist fails; otherwise each file found is turned into a key by taking basePath and a
\* leading slash off its path
sftpList(stored, p) ==
    LET searchPath == Join("unix", BasePath, p)
        found == {k \in stored : IsUnder(RemotePath(k), searchPath)}
    IN  IF found = {} /\ searchPath # BasePath
        THEN [keys |-> {}, err |-> "error walking directory"]
        ELSE [keys |-> {TrimPrefix(SubSeq(RemotePath(k), Len(BasePath) + 1,
                                          Len(RemotePath(k)))) : k \in found},
              err |-> "nil"]

adapterList(p, stored, prefix) ==
    IF p = "sftp" THEN sftpList(stored, prefix) ELSE prefixList(stored, prefix)

otherThanSweep ==
    <<coreVars, zipVars, adapterVars, cliVars, keyVars, teeVars, listVars, cancelVars,
      putVars, retryVars, fetchVars, partsVars>>

\* Upload(key) succeeds
SweepUpload ==
    /\ \E k \in ObjectKeys \ uploaded : uploaded' = uploaded \cup {k}
    /\ UNCHANGED <<otherThanSweep, sweepAdapter, sweepPrefix, sweepRet, listedOf>>

\* List(prefix), as Prune calls it with its key prefix
SweepList ==
    /\ \E p \in KeyStringPrefixes :
        /\ sweepPrefix' = p
        /\ sweepRet' = adapterList(sweepAdapter, uploaded, p)
        /\ listedOf' = uploaded
    /\ UNCHANGED <<otherThanSweep, sweepAdapter, uploaded>>

NotListed == [keys |-> {}, err |-> "pending"]

InitSweep ==
    /\ CoreIdle
    /\ ZipIdle
    /\ AdapterIdle
    /\ CliIdle
    /\ KeyIdle
    /\ TeeIdle
    /\ ListIdle
    /\ CancelIdle
    /\ PutIdle
    /\ RetryIdle
    /\ FetchIdle
    /\ PartsIdle
    /\ sweepAdapter \in Providers
    /\ uploaded = {}
    /\ sweepPrefix = <<>>
    /\ sweepRet = NotListed
    /\ listedOf = {}

NextSweep == SweepUpload \/ SweepList

SpecSweep == InitSweep /\ [][NextSweep]_vars

\* ---- what the claims read off a state ----
Entries == 1..Len(entries)

\* the key the walk checks and uploads for entry i
KeyOf(i) == uploadKey(compress, entries[i])

\* the positions in the call log of the calls of one operation on one key
CallsOf(op, key) == {n \in 1..Len(calls) : calls[n].op = op /\ calls[n].key = key}

\* what GetFileInfo answered for entry i in this run (no element if it was not asked
\* or failed)
InfoSeen(i) ==
    {calls[n].info : n \in {m \in CallsOf("GetFileInfo", KeyOf(i)) : calls[m].err = "nil"}}

\* entry i is a file the walk has checked with the remote object present and described
Checked(i) == Qualifies(entries[i], backupExt) /\ InfoSeen(i) # {}

Active(i) == shouldCompress(compress, entries[i])

SkipLogged(i) ==
    \E n \in 1..Len(logs) :
        logs[n] = Log("info", "Skipping file (already uploaded or not modified)", Path(entries[i]))

NoUploadCall(i) == CallsOf("Upload", KeyOf(i)) = {}

C2_EligibilityErrorAbortsWalk ==
    \A n \in 1..Len(calls) :
        (calls[n].op \in {"FileExists", "GetFileInfo"} /\ calls[n].err # "nil") =>
            /\ n = Len(calls)
            /\ status = "done" /\ result = calls[n].err
            /\ calls[n].key = KeyOf(idx)
            /\ verdict[idx] = [eligible |-> FALSE, err |-> calls[n].err]
            /\ outcome[idx] = "failed"
            /\ NoUploadCall(idx)
            /\ \A j \in Entries : j > idx => outcome[j] = "pending"

\* a GetFileInfo failure ended a walk that had a qualifying file still to visit
C2_Witness ==
    /\ status = "done" /\ result = "GetFileInfoErr"
    /\ idx < Len(entries)
    /\ Qualifies(entries[idx + 1], backupExt)
    /\ calls[Len(calls)].op = "GetFileInfo"

\* ---- C3 ----
\* C3: a file whose remote object exists and whose modification time is strictly after
\* the remote lastModified is judged Eligible, whatever the sizes and the compression.
C3_LocalNewerIsEligible ==
    \A i \in Entries :
        \A r \in InfoSeen(i) :
            (Qualifies(entries[i], backupExt) /\ entries[i].modTime > r.lastModified) =>
                verdict[i] = Eligible

\* a newer local file of the remote object's size was judged Eligible
C3_Witness ==
    \E i \in Entries :
        \E r \in InfoSeen(i) :
            /\ entries[i].modTime > r.lastModified
            /\ entries[i].size = r.size
            /\ verdict[i] = Eligible

C5_UncompressedComparesSize ==
    \A i \in Entries :
        \A r \in InfoSeen(i) :
            (Checked(i) /\ ~Active(i) /\ entries[i].modTime <= r.lastModified) =>
                /\ verdict[i] \in {Eligible, Skip}
                /\ (verdict[i] = Eligible) <=> (entries[i].size # r.size)
                /\ entries[i].size = r.size =>
                       outcome[i] = "skipped" /\ SkipLogged(i) /\ NoUploadCall(i)

\* an uncompressed file with the remote object's time and size was skipped
C5_Witness ==
    \E i \in Entries :
        \E r \in InfoSeen(i) :
            /\ Checked(i) /\ ~Active(i)
            /\ entries[i].modTime = r.lastModified
            /\ entries[i].size = r.size
            /\ outcome[i] = "skipped" /\ SkipLogged(i)

\* ---- C6 ----
\* the entries for which FileExists answered (false, nil)
Absent(i) ==
    \E n \in CallsOf("FileExists", KeyOf(i)) : calls[n].err = "nil" /\ ~calls[n].exists

\* C6 as stated: a file for which FileExists returned (false, nil) is Eligible and is
\* uploaded, and GetFileInfo is not called for its key.
C6_AbsentIsUploaded ==
    \A i \in Entries :
        Absent(i) =>
            /\ verdict[i] = Eligible
            /\ outcome[i] = "uploaded"
            /\ CallsOf("GetFileInfo", KeyOf(i)) = {}

\* C6 amended: a file for which FileExists returned (false, nil) is Eligible, GetFileInfo
\* is not called for its key, and the file is uploaded unless opening the local file or
\* the adapter's Upload call fails, in which case Upload returns that error.
C6_AbsentIsEligible ==
    \A i \in Entries :
        Absent(i) =>
            /\ verdict[i] = Eligible
            /\ CallsOf("GetFileInfo", KeyOf(i)) = {}
            /\ \/ /\ outcome[i] = "uploaded"
                  /\ \E n \in CallsOf("Upload", KeyOf(i)) : calls[n].err = "nil"
                  /\ KeyOf(i) \in DOMAIN remote
               \/ /\ outcome[i] = "failed" /\ status = "done" /\ idx = i
                  /\ \/ result = "openErr" /\ NoUploadCall(i)
                     \/ /\ result = "UploadErr"
                        /\ \E n \in CallsOf("Upload", KeyOf(i)) : calls[n].err = "UploadErr"

\* a file absent from the store was uploaded without a GetFileInfo call
C6_Witness ==
    \E i \in Entries :
        /\ Absent(i)
        /\ outcome[i] = "uploaded"
        /\ CallsOf("GetFileInfo", KeyOf(i)) = {}
        /\ KeyOf(i) \in DOMAIN remote

\* ---- C7 ----
IsInfoCall(c) == c.op = "GetFileInfo"

\* the GetFileInfo calls of the sweep, in order
InfoCalls == SelectSeq(calls, IsInfoCall)

DeleteCallsOf(key) == CallsOf("Delete", key)

Sweeping == status \in {"sweeping", "done"} /\ age # 0

\* C7: the cutoff is the time of the invocation less the age, whatever the clock does
\* during the sweep; Delete is issued for exactly the listed keys whose GetFileInfo
\* succeeded with lastModified strictly before the cutoff, and for no key outside the
\* listing.
C7_PruneDeletesExactlyStale ==
    Sweeping =>
        /\ cutoff = invokedAt - age
        /\ Len(InfoCalls) <= Len(files)
        /\ \A k \in 1..Len(InfoCalls) :
               (DeleteCallsOf(files[k]) # {}) <=>
                   /\ InfoCalls[k].key = files[k]
                   /\ InfoCalls[k].err = "nil"
                   /\ InfoCalls[k].info.lastModified < invokedAt - age
        /\ \A n \in 1..Len(calls) :
               calls[n].op = "Delete" =>
                   \E k \in 1..Len(InfoCalls) : files[k] = calls[n].key

\* a sweep that outlasted a clock tick deleted one key and kept one whose lastModified
\* is the cutoff
C7_Witness ==
    /\ Sweeping /\ status = "done" /\ result = "nil" /\ now > invokedAt
    /\ \E k \in 1..Len(InfoCalls) :
           DeleteCallsOf(files[k]) # {} /\ files[k] \notin DOMAIN remote
    /\ \E k \in 1..Len(InfoCalls) :
           /\ InfoCalls[k].err = "nil" /\ InfoCalls[k].info.lastModified = cutoff
           /\ files[k] \in DOMAIN remote

\* ---- C8 ----
\* C8: the sweep queries the listed keys with GetFileInfo one by one in listing order
\* and, whatever fails on the way, has queried them all when it ends; a key whose
\* GetFileInfo failed is not deleted, and every key found stale gets its Delete call.
C8_PruneContinuesPastFailures ==
    Sweeping =>
        /\ Len(InfoCalls) <= Len(files)
        /\ \A k \in 1..Len(InfoCalls) : InfoCalls[k].key = files[k]
        /\ status = "sweeping" => Len(InfoCalls) = idx - 1
        /\ (status = "done" /\ calls[1].err = "nil") => Len(InfoCalls) = Len(files)
        /\ \A k \in 1..Len(InfoCalls) :
               /\ InfoCalls[k].err # "nil" => DeleteCallsOf(files[k]) = {}
               /\ (InfoCalls[k].err = "nil" /\ InfoCalls[k].info.lastModified < cutoff) =>
                      DeleteCallsOf(files[k]) # {}

\* the first key's GetFileInfo or Delete failed and a later key was deleted
C8_Witness ==
    /\ Sweeping /\ status = "done" /\ Len(files) >= 2
    /\ \E n \in 1..Len(calls) :
           /\ calls[n].key = files[1] /\ calls[n].err # "nil"
           /\ calls[n].op \in {"GetFileInfo", "Delete"}
    /\ files[1] \in DOMAIN remote
    /\ \E n \in DeleteCallsOf(files[2]) : calls[n].err = "nil"
    /\ files[2] \notin DOMAIN remote

\* ---- C9 ----
\* C9: with a non-zero age, Prune returns an error exactly if the List call failed: then
\* it returns List's error and List is its only adapter call; otherwise it returns nil,
\* whatever the calls on the keys returned.
C9_PruneFailsOnlyOnList ==
    (status = "done" /\ age # 0) =>
        /\ calls # <<>> /\ calls[1].op = "List"
        /\ (result # "nil") <=> (calls[1].err # "nil")
        /\ calls[1].err # "nil" => result = calls[1].err /\ Len(calls) = 1
        /\ calls[1].err = "nil" => result = "nil"

\* Prune returned nil although on each of at least two keys a call failed, one of
\* them a Delete
C9_Witness ==
    /\ status = "done" /\ age # 0 /\ result = "nil"
    /\ Len(files) >= 2
    /\ \E n \in 1..Len(calls) : calls[n].op = "Delete" /\ calls[n].err # "nil"
    /\ \A k \in 1..Len(files) :
           \E n \in 1..Len(calls) : calls[n].key = files[k] /\ calls[n].err # "nil"

\* ---- C10 ----
\* C10: once the context is cancelled, the next callback makes Upload return
\* context.Canceled whatever the entry is, and from the cancellation on no adapter call
\* is made and the store is not touched; a run whose context was cancelled before the
\* first entry ends with no adapter call at all.
C10_CancelledWalkStops ==
    /\ [][(status = "walking" /\ cancelled) =>
              /\ calls' = calls
              /\ remote' = remote
              /\ idx' = idx
              /\ status' \in {"walking", "done"}
              /\ status' = "done" => result' = "context.Canceled" /\ outcome'[idx] = "cancelled"]_vars
    /\ [](result = "context.Canceled" =>
              /\ status = "done" /\ outcome[idx] = "cancelled"
              /\ \A j \in Entries : j >= idx => verdict[j] = NotAsked
              /\ idx = 1 => calls = <<>>)

\* a walk was cancelled after it had made adapter calls, in front of a qualifying file
C10_Witness ==
    /\ status = "done" /\ result = "context.Canceled"
    /\ idx > 1 /\ calls # <<>>
    /\ Qualifies(entries[idx], backupExt)
    /\ CallsOf("FileExists", KeyOf(idx)) = {}

\* ---- C11 ----
IsUploadCall(c) == c.op = "Upload"

\* the positions of the Upload calls of the current run
UploadCalls == {n \in 1..Len(calls) : IsUploadCall(calls[n])}

\* the entry an adapter key belongs to (file names are unique in a directory)
OwnerOf(key) == {i \in Entries : key \in {entries[i].name \o entries[i].ext,
                                          entries[i].name \o ".zip"}}

\* the compress flag is set and the extension is not in the already-compressed list
ZipWanted(i) == compress /\ ToLower(entries[i].ext) \notin CompressedExts

\* C11: every Upload call handed to the adapter belongs to a qualifying file and carries
\* the key with the extension replaced by .zip, size -1 and the archive stream exactly
\* when compress is set and the extension is not in the already-compressed list, and
\* otherwise the plain key, the file's real size and the raw file; the FileExists call of
\* the eligibility check made just before it (with at most a GetFileInfo call between
\* them) was made on the same key.
C11_UploadTargetFollowsCompression ==
    \A n \in UploadCalls :
        /\ \E i \in OwnerOf(calls[n].key) :
            /\ Qualifies(entries[i], backupExt)
            /\ IF ZipWanted(i)
               THEN /\ calls[n].key = entries[i].name \o ".zip"
                    /\ calls[n].size = -1
                    /\ calls[n].body = "zip"
               ELSE /\ calls[n].key = entries[i].name \o entries[i].ext
                    /\ calls[n].size = entries[i].size
                    /\ calls[n].body = "file"
        /\ \E m \in 1..(n - 1) :
            /\ calls[m].op = "FileExists"
            /\ m >= n - 2
            /\ \A k \in m..n : calls[k].key = calls[n].key

\* an already-compressed file was uploaded under its plain key with its real size while
\* compress was set, after an eligibility check on that key
C11_Witness ==
    /\ compress
    /\ \E n \in UploadCalls, i \in Entries :
        /\ isCompressedFile(entries[i])
        /\ calls[n].key = constructKey(entries[i])
        /\ calls[n].size = entries[i].size
        /\ calls[n].err = "nil"
        /\ n > 1 /\ calls[n - 1].key = calls[n].key

\* ---- C13 ----
\* the adapter calls of the current run made for an entry
CallsFor(i) == {n \in 1..Len(calls) : i \in OwnerOf(calls[n].key)}

UploadsOf(i) == CallsFor(i) \cap UploadCalls

\* the callback has been run on the entry and the entry passed the extension filter
Visited(i) == Qualifies(entries[i], backupExt) /\ outcome[i] # "pending"

WasUploaded(i) == \E n \in UploadsOf(i) : calls[n].err = "nil"

WasSkipped(i) == UploadsOf(i) = {} /\ SkipLogged(i)

\* the callback returned an error on the entry, which made filepath.Walk return it
HasFailed(i) == status = "done" /\ idx = i /\ result # "nil"

WalkErrors ==
    {"context.Canceled", "walkErr", "keyErr", "FileExistsErr", "GetFileInfoErr",
     "openErr", "UploadErr"}

\* the walk went on after the entry: to the next entry, or to its end without an error
WentOn(i) == idx > i \/ (i = Len(entries) /\ status = "done" /\ result = "nil")

\* C13: in one Upload run every visited qualifying file is in exactly one of the states
\* uploaded (its single Upload call succeeded), skipped (no Upload call, skip logged) or
\* failed (the callback returned an error on it), with at most one Upload call for it;
\* after an uploaded or skipped file the walk goes on; a failed file is the last one
\* visited, the run's result is its error, and no later file has been checked or uploaded.
C13_OneOutcomePerFileFailFast ==
    \A i \in Entries :
        Visited(i) =>
            /\ Cardinality(UploadsOf(i)) <= 1
            /\ \/ WasUploaded(i) /\ ~WasSkipped(i) /\ ~HasFailed(i)
               \/ ~WasUploaded(i) /\ WasSkipped(i) /\ ~HasFailed(i)
               \/ ~WasUploaded(i) /\ ~WasSkipped(i) /\ HasFailed(i)
            /\ (WasUploaded(i) \/ WasSkipped(i)) => WentOn(i)
            /\ HasFailed(i) =>
                /\ result \in WalkErrors
                /\ \A n \in CallsFor(i) : calls[n].err # "nil" => result = calls[n].err
                /\ \A n \in 1..Len(calls) : calls[n].err # "nil" => n = Len(calls)
                /\ \A j \in Entries : j > i => outcome[j] = "pending" /\ CallsFor(j) = {}

\* a first file was skipped, the walk went on, and the second file's upload failed and
\* ended the run with that error
C13_Witness ==
    \E i, j \in Entries :
        /\ i < j
        /\ Visited(i) /\ WasSkipped(i)
        /\ Visited(j) /\ HasFailed(j)
        /\ result = "UploadErr"
        /\ Cardinality(UploadsOf(j)) = 1

\* a first file failed on opening, the run ended and the second file was never visited
C13_WitnessFailFast ==
    \E i, j \in Entries :
        /\ i < j
        /\ Visited(i) /\ HasFailed(i) /\ result = "openErr"
        /\ Qualifies(entries[j], backupExt) /\ outcome[j] = "pending"

\* ---- C12 ----
\* C12: when the adapter has read the upload reader up to EOF, what it received is one
\* complete archive with exactly one entry that passes the reader's checks, and
\* extracting the entry gives the local file's bytes in their order; nothing is left in
\* the pipe or in the zip.Writer.
C12_ArchiveRoundTrip ==
    reading = "eof" =>
        /\ IsArchive(received)
        /\ EntryCount(received) = 1
        /\ EntryIntact(received)
        /\ received[1].name = EntryName
        /\ Extract(received) = srcFile
        /\ pipe = <<>> /\ zw = <<>>

\* the pipe neither loses, duplicates nor reorders: what was received, what the write
\* in progress still offers and what the zip.Writer holds are, in this order, the
\* archive of the part of the file read so far
C12_PipeKeepsOrder ==
    LET s == received \o pipe \o zw
    IN  worker \in {"copy", "close", "closing", "done"} =>
            /\ Len(s) >= 1 + srcPos
            /\ s[1] = LocalHeader(EntryName)
            /\ \A k \in 1..srcPos : s[k + 1] = Data(srcFile[k])

\* a file of MaxBytes bytes, not all equal, was archived and read to EOF
C12_Witness ==
    /\ reading = "eof"
    /\ Len(srcFile) = MaxBytes
    /\ srcFile[1] # srcFile[MaxBytes]
    /\ Extract(received) = srcFile

\* ---- C14 ----
\* the last operation was a FileExists the backend answered by reporting the absence of
\* the object (the bucket lookup of the B2 adapter having succeeded)
AbsenceReported ==
    /\ lastCall.op = "FileExists"
    /\ lastCall.bucket = Ok
    /\ lastCall.report.kind = "absent"

FalseNil == lastCall.op = "FileExists" /\ lastCall.exists = FALSE /\ lastCall.err = Nil

\* what the backend answered to the last FileExists: the failed bucket lookup if there
\* was one, the answer about the object otherwise
Answered == IF lastCall.bucket # Ok THEN lastCall.bucket ELSE lastCall.report

C15_WitnessLengthRequired ==
    /\ FalseNil
    /\ provider = "r2"
    /\ Answered.kind = "lengthRequired"
    /\ lastCall.held = "present"

\* ---- C16 ----
\* the last operation was a Download of a key the backend reported absent (the output
\* file having been created and the bucket lookup of the B2 adapter having succeeded)
MissingKeyDownload ==
    /\ lastCall.op = "Download"
    /\ lastCall.bucket = Ok
    /\ lastCall.report.kind = "absent"

\* C16: with every adapter, the Download of a key that does not exist returns the
\* UserError "File not found: <key>", and the download command shows that message.
\* (Violated by the B2 adapter, which returns "Error reading file content: <key>".)
C16_MissingKeyIsNotFound ==
    MissingKeyDownload =>
        /\ lastCall.err = UserError(NotFoundMessage(lastCall.key), lastCall.report)
        /\ lastCall.shown = [message |-> NotFoundMessage(lastCall.key), exit |-> 1]

\* the adapters other than B2 do return the not-found error for a missing key
C16_MissingKeyIsNotFoundExceptB2 ==
    (MissingKeyDownload /\ provider # "b2") =>
        /\ lastCall.err = UserError(NotFoundMessage(lastCall.key), lastCall.report)
        /\ lastCall.shown = [message |-> NotFoundMessage(lastCall.key), exit |-> 1]

\* the B2 adapter downloaded a key that was never created and the user was shown the
\* read-error message
C16_B2ShowsReadError ==
    /\ MissingKeyDownload
    /\ provider = "b2"
    /\ lastCall.held = "never"
    /\ lastCall.shown.message = "Error reading file content: " \o lastCall.key

\* ---- C17 ----
\* the run selected sftp, NewSFTPUploader established a session, and the process is over
SftpRunOver == stage = "exited" /\ provider = "sftp" /\ session # "none"

\* C17: in every command-line run that selects the sftp provider and establishes a
\* session, SFTPUploader.Close has been called exactly once when the process exits,
\* whether the command succeeded or failed. (Violated: nothing calls Close.)
C17_SftpSessionClosedOnce ==
    SftpRunOver => (closes = 1 /\ session = "closed")

\* what the code does instead: the session is never closed
C17_SftpSessionNeverClosed == closes = 0 /\ session # "closed"

\* an upload over sftp succeeded, the After hook closed the logger, and the process
\* exited with the session still open
C17_SessionLeftOpen ==
    /\ SftpRunOver
    /\ command = "upload"
    /\ exitCode = 0
    /\ logger = "closed"
    /\ session = "open"
    /\ closes = 0

\* ---- C18 ----
\* the elements of the key: what stands between its forward slashes
KeyElements(key) == Elements("unix", key)

\* the path elements of the file below the walk root
RelElements == [k \in 1..(Len(argPath) - Len(argRootDir)) |-> <<argPath[Len(argRootDir) + k]>>]

\* the key consists of the elements of keyPrefix followed by those of the relative
\* path, separated by forward slashes only
IsPrefixJoinedWithRel(key) ==
    /\ KeyElements(key) = Elements(targetOS, argKeyPrefix) \o RelElements
    /\ \A k \in 1..Len(key) : IsPathSeparator(targetOS, key[k]) => key[k] = "/"

NoLeadingSlash(key) == key = <<>> \/ key[1] # "/"

\* C18 as stated: every key constructKey returns for a path under rootDir uses only
\* forward slashes as separators, has no leading slash, consists of keyPrefix joined
\* with the path relative to rootDir, and is the same on every call. (Violated on
\* Windows by a keyPrefix that starts with two separators.)
C18_KeyIsNormalized ==
    \A n \in 1..Len(built) :
        /\ IsPrefixJoinedWithRel(built[n])
        /\ NoLeadingSlash(built[n])
        /\ built[n] = built[1]

\* what does hold: the separators, the elements and the repeatability
C18_KeyIsNormalizedButForLeadingSlash ==
    \A n \in 1..Len(built) :
        /\ IsPrefixJoinedWithRel(built[n])
        /\ built[n] = built[1]
        /\ (targetOS = "unix" \/ Len(argKeyPrefix) < 2 \/ ~IsPathSeparator(targetOS, argKeyPrefix[1])
            \/ ~IsPathSeparator(targetOS, argKeyPrefix[2])) => NoLeadingSlash(built[n])

\* on Windows the prefix //p/p gave a key that starts with a slash
C18_LeadingSlashOnWindows ==
    /\ targetOS = "windows"
    /\ argKeyPrefix = <<"/", "/", "p", "/", "p">>
    /\ Len(built) = MaxCalls
    /\ built[1] = <<"/", "p", "/", "p", "/">> \o Joined(RelElements, <<"/">>)

\* a rooted prefix with a trailing slash and a file in a subdirectory gave prefix/d/f,
\* twice
C18_RootedPrefixTrimmed ==
    /\ argKeyPrefix = <<"/", "p", "/">>
    /\ Len(RelElements) = 2
    /\ Len(built) = MaxCalls
    /\ built[1] = <<"p", "/", "d", "/", "f">>
    /\ built[2] = built[1]

\* ---- C19 ----
BothOver == quiet.over /\ loud.over

\* C19 as stated: two runs that differ only in the non-interactive flag issue the same
\* adapter call and transfer the same bytes with the same result. (Violated: an error of
\* the progress bar's Write ends the transfer of the run that shows progress.)
C19_ProgressBarOnlyObserves ==
    BothOver => (loud.moved = quiet.moved /\ loud.err = quiet.err)

\* what does hold: the bar never alters a byte; the run with the bar moves the same bytes
\* in the same order up to the point where a write to the bar fails
C19_ProgressBarAltersNoByte ==
    /\ Len(loud.moved) <= Len(quiet.moved)
    /\ loud.moved = SubSeq(quiet.moved, 1, Len(loud.moved))
    /\ (BothOver /\ loud.err = "nil") => loud.moved = quiet.moved
    /\ quiet.over => quiet.moved = payload /\ quiet.err = "nil"

\* the run with --non-interactive transferred the whole payload, the run without it
\* failed behind the first of several chunks
C19_ProgressBarEndsTransfer ==
    /\ BothOver
    /\ quiet.moved = payload /\ quiet.err = "nil"
    /\ loud.err # "nil"
    /\ Len(loud.moved) < Len(payload)
    /\ TransferCall(direction, payload).op = "Upload"

\* ---- C20 ----
ListReturned == listRet # NotReturned

PageFailed == \E i \in 1..Len(fetched) : fetched[i] = "error"

\* C20: List returns every key under the prefix, each once and in the listing's order,
\* however many pages the backend splits the listing into; it returns an error exactly
\* if a page request failed, so a listing cut short is never returned as success.
C20_ListIsCompleteOrFails ==
    ListReturned =>
        /\ (listRet.err # "nil") <=> PageFailed
        /\ listRet.err = "nil" => listRet.keys = Matching

\* List returned a listing made of several pages, from a bucket that also holds keys
\* outside the prefix
C20_Witness ==
    /\ ListReturned
    /\ listRet.err = "nil"
    /\ Len(fetched) >= 2
    /\ Len(listRet.keys) >= 2
    /\ \E i \in 1..Len(AllKeys) : AllKeys[i] \in bucketKeys /\ ~UnderPrefix(AllKeys[i])

\* a later page failed after keys had been collected, with more keys to come
C20_WitnessPageFails ==
    /\ ListReturned
    /\ PageFailed
    /\ fetched[1] = "page"
    /\ listKeys # <<>>
    /\ Len(listKeys) < Len(Matching)
    /\ listForm = "pages"

\* ---- C21 ----
WorkerExited == worker \in {"done", "failed"}

ReadEnded == reading \in {"eof", "err"}

\* C21: the archiving goroutine never exits with the pipe's write end open (after the
\* archive is complete it is closed for EOF, after a failure with the error), and an
\* adapter that keeps reading the stream gets EOF or an error in the end.
C21_WorkerAlwaysClosesPipe ==
    /\ [](WorkerExited => pwClosed # "open")
    /\ (reading = "reading") ~> ReadEnded

\* the goroutine failed while copying, after the adapter had received a part of the
\* archive, and the adapter's read returned
C21_Witness ==
    /\ worker = "failed"
    /\ srcPos > 0
    /\ received # <<>>
    /\ ReadEnded

\* ---- C22 ----
\* C22: when archiving has failed (at the entry header, while copying the file, or when
\* finishing the archive), the adapter's read of the stream never ends with EOF: it ends
\* with the error, and what the adapter was given before is not a complete archive. EOF
\* is only ever seen behind a goroutine that ran to its end.
C22_FailedArchiveIsNeverEof ==
    /\ (worker = "failed" /\ reading # "reading") =>
            /\ reading \in {"err", "abandoned"}
            /\ ~IsArchive(received)
    /\ reading = "eof" => worker = "done"
    /\ worker = "failed" => pwClosed = "err"

\* finishing the archive failed after the whole file had gone to the adapter, and the
\* adapter's read returned the error
C22_Witness ==
    /\ worker = "failed"
    /\ reading = "err"
    /\ srcPos = Len(srcFile)
    /\ Len(received) = 1 + Len(srcFile)
    /\ Len(srcFile) > 0

\* ---- C23 ----
CallReturned == callRet # "pending"

\* C23 as stated: on every adapter, a per-file call during which the context was
\* cancelled returns a cancellation error. (Violated: the SFTP adapter runs on.)
C23_CancelledCallFails ==
    (CallReturned /\ cutShort) => callRet = "context canceled"

\* what does hold: the adapters that pass the context on fail the call at its next
\* request
C23_CancelledCallFailsWhereContextIsPassed ==
    (CallReturned /\ cutShort /\ PassesContext(adapter)) => callRet = "context canceled"

\* an SFTP call ran to its end and returned nil although the context was cancelled
\* while it was in flight
C23_SftpCallRunsOn ==
    /\ adapter = "sftp"
    /\ cutShort
    /\ callRet = "nil"

\* ---- C24 ----
UnknownSizePut == putRet # "idle" /\ uploadSize(putCompress, putStream) < 0

DeclaresUnknownLength(r) == r.kind = "PutObject" /\ r.declares /\ r.declared < 0

\* C24 as stated: handed the size -1, no adapter makes a single put that declares -1 as
\* the content length. (Violated: the R2 adapter does.)
C24_NoPutDeclaresUnknownLength ==
    UnknownSizePut => \A i \in 1..Len(requests) : ~DeclaresUnknownLength(requests[i])

\* what does hold: the adapters other than R2 hand the stream to the transfer manager
\* or copy it into a writer, and make no single put
C24_NoPutDeclaresUnknownLengthButR2 ==
    (UnknownSizePut /\ putAdapter # "r2") =>
        \A i \in 1..Len(requests) : requests[i].kind # "PutObject"

\* the R2 adapter was handed an archive stream and made one PutObject with
\* ContentLength -1
C24_R2DeclaresUnknownLength ==
    /\ putAdapter = "r2"
    /\ putCompress
    /\ putStream # <<>>
    /\ Len(requests) = 1
    /\ DeclaresUnknownLength(requests[1])
    /\ putRet \in {"nil", "backend error"}

\* ---- C25 ----
\* C25 as stated: once the adapter's Upload has returned without reading the stream to
\* its end, the archiving goroutine still terminates. (Violated: nothing closes the
\* pipe's read end, and a goroutine whose write is in progress waits forever.)
C25_WorkerTerminatesAfterUpload ==
    [](reading = "abandoned" => <>WorkerExited)

\* what does hold: a goroutine that has not exited after the adapter returned is in a
\* write to the pipe or can still take a step; once its write is in progress it never
\* moves again
C25_BlockedWorkerStaysBlocked ==
    [][(reading = "abandoned" /\ pipe # <<>>) =>
            (worker' = worker /\ pipe' = pipe /\ pwClosed' = pwClosed)]_vars

\* the adapter returned while a write of the goroutine to the pipe was in progress
C25_WorkerBlockedOnWrite ==
    /\ reading = "abandoned"
    /\ pipe # <<>>
    /\ ~WorkerExited
    /\ pwClosed = "open"

\* ---- C26 ----
\* the first run's transfer failed and left an object under the key, and a second run
\* has visited the file
PartialLeftAndRevisited ==
    /\ retryRuns = 2
    /\ retryStage[1] = "failed"
    /\ LeavesPartial(retryAdapter)

\* C26 as stated: a partial object left by a failed transfer never leads to Skip in the
\* next run. (Violated under compression: the size comparison is not made, and the
\* partial object is as new as the failed transfer.)
C26_PartialObjectIsReuploaded ==
    PartialLeftAndRevisited => retryStage[2] = "uploaded"

\* what does hold: without compression the shorter object is always uploaded again;
\* under compression it is uploaded again only if the local file's time lies after the
\* time of the failed transfer
C26_PartialObjectIsReuploadedUnlessCompressed ==
    PartialLeftAndRevisited =>
        /\ ~shouldCompress(retryCompress, retryFile) => retryStage[2] = "uploaded"
        /\ shouldCompress(retryCompress, retryFile) =>
            /\ retryStage[2] = "uploaded" =>
                    retryVerdict.logs = <<Log("info", "Local file is newer",
                                              uploadKey(retryCompress, retryFile))>>
            /\ retryStage[2] = "skipped" => retryFile.modTime <= retryClock

\* on SFTP, under compression, the first transfer failed after a part of the archive was
\* stored, and the second run skipped the file
C26_PartialArchiveSkipped ==
    /\ PartialLeftAndRevisited
    /\ shouldCompress(retryCompress, retryFile)
    /\ retryStage[2] = "skipped"
    /\ retryStore[uploadKey(retryCompress, retryFile)].size > 0
    /\ retryStore[uploadKey(retryCompress, retryFile)].size
         < TransferSize(retryCompress, retryFile)

\* ---- C27 ----
DownloadFailed == fetchRet \notin {"pending", "nil"}

\* C27 as stated: a Download that fails leaves the output file as it was before the run:
\* none is created, and an existing one keeps its bytes. (Violated: the file is created
\* or emptied before the adapter is called, and stays.)
C27_FailedDownloadLeavesFile ==
    DownloadFailed => fetchLocal = fetchBefore

\* what does hold: the output file is as before when Download fails before os.Create has
\* succeeded; after a failure of the adapter it exists and holds what the adapter wrote
\* before it failed, a proper prefix of the object or nothing; after a success it holds
\* the object
C27_FailedDownloadLeavesFileBeforeCreate ==
    /\ fetchRet \in {"No key specified", "Failed to create output file"} =>
            fetchLocal = fetchBefore
    /\ fetchRet = "adapter: no object" => fetchLocal = File(<<>>)
    /\ fetchRet = "adapter: failed partway" =>
            /\ fetchLocal.exists
            /\ Len(fetchLocal.bytes) < Len(fetchObject.bytes)
            /\ fetchLocal.bytes = SubSeq(fetchObject.bytes, 1, Len(fetchLocal.bytes))
    /\ fetchRet = "nil" => fetchLocal = fetchObject

\* the key was not there, and the output file, which held bytes before the run, is empty
C27_ExistingFileEmptied ==
    /\ fetchRet = "adapter: no object"
    /\ fetchBefore.exists /\ fetchBefore.bytes # <<>>
    /\ fetchLocal = File(<<>>)

\* ---- C28 ----
\* the listed keys the sweep has issued a Delete for, by their position in the listing
DeletedAt == {k \in 1..Len(InfoCalls) : DeleteCallsOf(files[k]) # {}}

\* C28 as stated: for every age Prune accepts, the cutoff does not lie after the moment
\* of the invocation, and every object a Delete is issued for was last modified before
\* that moment. (Violated: a negative age is accepted and puts the cutoff in the future.)
C28_PruneDeletesOnlyOlderThanInvocation ==
    Sweeping =>
        /\ cutoff <= invokedAt
        /\ \A k \in DeletedAt : InfoCalls[k].info.lastModified < invokedAt

\* what does hold: with a positive age the cutoff lies before the invocation and so does
\* every deleted object's lastModified; with a negative age the cutoff lies after it
C28_PruneDeletesOnlyOlderThanInvocationForPositiveAge ==
    Sweeping =>
        /\ age > 0 =>
            /\ cutoff < invokedAt
            /\ \A k \in DeletedAt : InfoCalls[k].info.lastModified < invokedAt
        /\ age < 0 => cutoff > invokedAt

\* with a negative age Prune deleted an object last modified at the moment of the
\* invocation
C28_NegativeAgeDeletesFreshObject ==
    /\ Sweeping /\ status = "done" /\ age < 0
    /\ \E k \in DeletedAt :
        /\ InfoCalls[k].info.lastModified = invokedAt
        /\ files[k] \notin DOMAIN remote

\* ---- C29 ----
\* C29 as stated: when the multipart Download has returned, the destination writer has
\* been given the object's bytes in offset order, whatever the order in which the parts
\* arrived. (Violated: WriteAt appends in arrival order.)
C29_MultipartDownloadKeepsOrder ==
    partsDone => dest = partObject

\* what does hold: every part that has arrived is written exactly once, so in the end
\* the destination has the object's length and its parts in some order
C29_MultipartDownloadKeepsParts ==
    /\ Len(dest) = handedOut - Cardinality(flying)
    /\ \A b \in Bytes :
           Cardinality({k \in 1..Len(dest) : dest[k] = b})
             = Cardinality({k \in (1..handedOut) \ flying : partObject[k] = b})
    /\ flying \subseteq 1..handedOut
    /\ Cardinality(flying) <= MaxInFlight

\* two parts were in flight together, the later one arrived first, and the file
\* differs from the object
C29_PartsWrittenOutOfOrder ==
    /\ partsDone
    /\ Len(dest) = Len(partObject)
    /\ dest # partObject
    /\ dest[1] = partObject[2]

\* ---- C30 ----
Listed == sweepRet # NotListed

\* C30 as stated: on every adapter, List(p) succeeds and contains every uploaded key
\* that p is a string prefix of. (Violated: the SFTP adapter takes the prefix for a
\* path.)
C30_ListByStringPrefixEverywhere ==
    Listed =>
        \A k \in listedOf :
            HasStringPrefix(k, sweepPrefix) => sweepRet.err = "nil" /\ k \in sweepRet.keys

\* what does hold: the object stores list exactly the uploaded keys that start with the
\* prefix; the SFTP adapter lists exactly the uploaded keys at or below the path the
\* prefix names, and fails if there is none and the prefix is not empty
C30_ListByStringPrefixOnObjectStores ==
    Listed =>
        /\ sweepAdapter # "sftp" =>
            /\ sweepRet.err = "nil"
            /\ sweepRet.keys = {k \in listedOf : HasStringPrefix(k, sweepPrefix)}
        /\ sweepAdapter = "sftp" =>
            /\ sweepRet.keys = {k \in listedOf : IsUnder(k, sweepPrefix)}
            /\ sweepRet.err = "nil" <=> (sweepRet.keys # {} \/ sweepPrefix = <<>>)

\* on SFTP, after the upload of "dd/f" and "d/f", List("d") succeeded without "dd/f"
C30_SftpListMissesKey ==
    /\ sweepAdapter = "sftp"
    /\ Listed
    /\ sweepPrefix = <<"d">>
    /\ <<"d", "d", "/", "f">> \in listedOf
    /\ sweepRet.err = "nil"
    /\ <<"d", "d", "/", "f">> \notin sweepRet.keys
    /\ <<"d", "/", "f">> \in sweepRet.keys

====
